---------------------------- MODULE Spec2Model ----------------------------
(***************************************************************************)
(* A model of the HTLC bridge back end: the resolver marketplace           *)
(* (backend/src/resolver_service.py), the bridge state coordinator         *)
(* (backend/src/bridge_coordinator.py) and the monitoring loops of the     *)
(* resolver daemon (backend/src/resolver_daemon.py).                       *)
(*                                                                         *)
(* Conventions.                                                            *)
(*  - Reputation is a float in the code; here it is counted in hundredths  *)
(*    (70 is 0.70), since the code only adds 0.01, subtracts 0.05 and      *)
(*    compares with thresholds.                                            *)
(*  - A bid's score is a float in the code; here it is the same rational   *)
(*    multiplied by 1500 * amount, which keeps its sign and its order for  *)
(*    the bids of one order (amount > 0 for every tracked order).          *)
(*  - A string that the code only measures (len) or compares is a record   *)
(*    of its length, of whether it is made of hex digits, and, for a       *)
(*    digest, of the text it is the SHA-256 digest of.                     *)
(*  - time.time() is the variable now, which never decreases.              *)
(*  - BridgeOrder objects live in order_heap, keyed by transfer_id;        *)
(*    active_orders holds the keys the marketplace tracks. An object that  *)
(*    was removed from active_orders keeps its fields in order_heap, as    *)
(*    it does for every other holder of the reference.                     *)
(***************************************************************************)
EXTENDS Integers, Sequences, FiniteSets, TLC

\* ------------------------------------------------------------ bounds
MaxTime == 2
MaxBids == 2
MaxClaims == 2
MaxTriggers == 2
MaxEvents == 2

\* ------------------------------------------------- program constants
RESOLVER_REPUTATION_THRESHOLD == 70
MIN_RESOLVER_STAKE == 1000
BID_EXECUTION_TIME == 60
MAX_EXECUTION_WINDOW == 300
DEFAULT_REPUTATION == 50
SUCCESS_DELTA == 1
FAILURE_DELTA == 5
MAX_REPUTATION == 100
MIN_REPUTATION == 0
TOKEN_ADDRESS_LEN == 42
SECRET_HASH_LEN == 64
GAS_ESTIMATE == 150000
MAX_CONCURRENT_OPERATIONS == 5
DAEMON_STAKE_AMOUNT == 1000
DAEMON_INITIAL_REPUTATION == 80
DAEMON_MIN_STAKE == 1000
DAEMON_MIN_REPUTATION == 70
MIN_PROFIT_DIVISOR == 100
INACTIVITY_LIMIT == 3600
STATS_RESET_AFTER == 86400

\* ------------------------------------------------------- small sets
TransferIds == {"t1", "t2"}
Resolvers == {"rA", "rB"}
Secrets == {"abc123", "wrong"}
SourceChain == "sepolia"
DestChain == "monad"
Chains == {SourceChain, DestChain}

Min(a, b) == IF a <= b THEN a ELSE b
Max(a, b) == IF a >= b THEN a ELSE b

\* hashlib.sha256(secret.encode()).hexdigest(): 64 hex digits, one digest
\* per text.
Sha256Hex(secret) == [len |-> SECRET_HASH_LEN, hex |-> TRUE, of |-> secret]

\* The secret_hash strings an order may carry: the digest of a secret, a
\* string of 64 characters that are not hex digits, a hex string one
\* character short, and the empty string.
HashStrings ==
    {Sha256Hex(s) : s \in Secrets}
        \cup {[len |-> SECRET_HASH_LEN, hex |-> FALSE, of |-> "none"],
              [len |-> SECRET_HASH_LEN - 1, hex |-> TRUE, of |-> "none"],
              [len |-> 0, hex |-> TRUE, of |-> "none"]}

\* The token_address strings an order may carry.
AddressStrings ==
    {[len |-> TOKEN_ADDRESS_LEN, hex |-> TRUE],
     [len |-> TOKEN_ADDRESS_LEN - 1, hex |-> TRUE],
     [len |-> 0, hex |-> TRUE]}

GoodAddress == [len |-> TOKEN_ADDRESS_LEN, hex |-> TRUE]

VARIABLES
    now,                 \* time.time()
    store_orders,        \* Coordination Store: the published orders, in publication order
    store_state,         \* Coordination Store: the per-transfer record that store_bridge_state upserts
    store_bids,          \* Coordination Store: the bids store_resolver_bid published
    order_heap,          \* the BridgeOrder objects, by transfer_id
    active_orders,       \* ResolverService.active_orders: its keys, in insertion order
    pending_bids,        \* ResolverService.pending_bids
    resolver_reputation, \* ResolverService.resolver_reputation
    resolver_stakes,     \* ResolverService.resolver_stakes
    resolver_reputation_threshold, \* ResolverService.resolver_reputation_threshold
    claim_log,           \* the claim calls made by execute_bridge, in order
    bridge_states,       \* BridgeCoordinator.bridge_states
    escrow_events,       \* BridgeCoordinator.escrow_events
    escrow_chain,        \* what _get_escrow_state reads on the two chains
    trigger_log,         \* the _trigger_claim_execution calls, in order
    sync_reads,          \* the sync_bridge_state calls suspended after their chain reads
    ret,                 \* the last call: its name, its transfer_id, its secret, its
                         \* boolean result, the number of events it returned
    ret_bid,             \* the bid the last select_winning_resolver returned (<<>> is None)
    ret_ids,             \* the list the last discover / monitor_order_timeouts call returned
    monitored_orders,    \* ResolverDaemon.monitored_orders: its keys (the objects are in order_heap)
    active_operations,   \* ResolverDaemon.active_operations: the transfers with a monitoring task
    monitor_pc,          \* where the _monitor_bridge_events loop stands in its iteration
    daemon_config,       \* ResolverDaemon.daemon_config
    resolver_stats,      \* ResolverDaemon.resolver_stats
    running,             \* ResolverDaemon.running
    signal_received,     \* whether SIGINT or SIGTERM was delivered to the process
    daemon_pc,           \* where start() stands: constructed, running, shutting_down, terminated
    activity_pc,         \* where each of the five loops of start() stands
    task_state           \* the monitoring task created for each transfer

vars == <<now, store_orders, store_state, store_bids, order_heap, active_orders, pending_bids,
          resolver_reputation, resolver_stakes, resolver_reputation_threshold,
          claim_log, bridge_states,
          escrow_events, escrow_chain, trigger_log, sync_reads, ret, ret_bid, ret_ids,
          monitored_orders, active_operations, monitor_pc, daemon_config, resolver_stats,
          running, signal_received, daemon_pc, activity_pc, task_state>>

marketVars == <<order_heap, active_orders, pending_bids, resolver_reputation,
                resolver_stakes, resolver_reputation_threshold, claim_log>>
bridgeVars == <<bridge_states, escrow_events, trigger_log, sync_reads>>
retVars == <<ret, ret_bid, ret_ids>>
trackVars == <<monitored_orders, active_operations, task_state>>
loopVars == <<running, signal_received, daemon_pc, activity_pc>>
daemonVars == <<trackVars, monitor_pc, daemon_config, resolver_stats, loopVars>>

\* The five loops start() runs.
Activities == {"monitor", "auto_bid", "execute", "reputation", "cleanup"}

\* A function without the key k (del d[k]).
Without(f, k) == [x \in DOMAIN f \ {k} |-> f[x]]
\* A function with the key k set to v (d[k] = v).
With(f, k, v) == [x \in DOMAIN f \cup {k} |-> IF x = k THEN v ELSE f[x]]
\* The elements of a sequence.
Range(s) == {s[i] : i \in DOMAIN s}

EmptyMap == [x \in {} |-> 0]

\* ----------------------------------------------------- Coordination Store
\* The record store_bridge_state upserts for one transfer_id; a field that
\* was never written holds "" / -1 / FALSE.
BlankStoreState ==
    [source_escrow_state |-> "", dest_escrow_state |-> "",
     secret_revealed |-> FALSE, last_sync |-> -1,
     winning_resolver |-> "", execution_deadline |-> -1,
     status |-> "", secret |-> "", execution_trigger |-> ""]

\* DaemonConfig with its defaults, for the resolver address of the
\* environment.
DefaultDaemonConfig ==
    [resolver_address |-> "rA", stake_amount |-> DAEMON_STAKE_AMOUNT,
     auto_bid_enabled |-> TRUE, auto_execution_enabled |-> TRUE,
     max_concurrent_operations |-> MAX_CONCURRENT_OPERATIONS]

\* ResolverDaemon.__init__.
InitDaemon(config) ==
    /\ monitored_orders = {}
    /\ active_operations = {}
    /\ task_state = [t \in TransferIds |-> "none"]
    /\ monitor_pc = "discover"
    /\ daemon_config = config
    /\ resolver_stats = [total_bids |-> 0, successful_executions |-> 0,
                         failed_executions |-> 0,
                         reputation_score |-> DAEMON_INITIAL_REPUTATION,
                         last_activity |-> 0]
    /\ running = FALSE
    /\ signal_received = FALSE
    /\ daemon_pc = "constructed"
    /\ activity_pc = [a \in Activities |-> "not_started"]

\* The service, the coordinator and the store after construction.
InitServices(threshold) ==
    /\ now = 0
    /\ resolver_reputation_threshold = threshold
    /\ store_orders = <<>>
    /\ store_bids = <<>>
    /\ store_state = [t \in TransferIds |-> BlankStoreState]
    /\ order_heap = EmptyMap
    /\ active_orders = <<>>
    /\ pending_bids = EmptyMap
    /\ resolver_reputation = EmptyMap
    /\ resolver_stakes = EmptyMap
    /\ claim_log = <<>>
    /\ bridge_states = EmptyMap
    /\ escrow_events = EmptyMap
    /\ escrow_chain = [t \in TransferIds |->
                         [source |-> [status |-> "pending", secret_revealed |-> FALSE],
                          dest |-> [status |-> "pending", secret_revealed |-> FALSE]]]
    /\ trigger_log = <<>>
    /\ sync_reads = [t \in TransferIds |-> <<>>]
    /\ ret = [op |-> "none", transfer_id |-> "", secret |-> "", ok |-> FALSE,
              new_events |-> 0]
    /\ ret_bid = <<>>
    /\ ret_ids = <<>>

InitWith(threshold) == InitServices(threshold) /\ InitDaemon(DefaultDaemonConfig)

Init == InitWith(RESOLVER_REPUTATION_THRESHOLD)

\* A call returns: its name, its transfer_id (or resolver), the secret it
\* was given, its boolean result, and the bid or the lists it returned (of a
\* list of events, the length).
ReturnOf(op, id, secret, ok, bid, ids, events) ==
    /\ ret' = [op |-> op, transfer_id |-> id, secret |-> secret, ok |-> ok,
               new_events |-> Len(events)]
    /\ ret_bid' = bid
    /\ ret_ids' = ids

Return(op, id, ok, bid, ids, events) == ReturnOf(op, id, "", ok, bid, ids, events)

\* The clock advances.
Tick ==
    /\ now < MaxTime
    /\ now' = now + 1
    /\ UNCHANGED <<store_orders, store_state, store_bids, marketVars, bridgeVars, escrow_chain,
                   retVars, daemonVars>>

\* An hour and a second pass.
IdleHour ==
    /\ now <= MaxTime
    /\ now' = now + INACTIVITY_LIMIT + 1
    /\ UNCHANGED <<store_orders, store_state, store_bids, marketVars, bridgeVars, escrow_chain,
                   retVars, daemonVars>>

\* ------------------------------------------------------ ResolverService
NoneSecret == "None"
SecretInputs == Secrets \cup {NoneSecret}

OrderData(t, amt, tok, h, to, created) ==
    [transfer_id |-> t, source_chain |-> SourceChain, dest_chain |-> DestChain,
     token_address |-> tok, amount |-> amt, secret_hash |-> h,
     timeout |-> to, created_at |-> created]

\* The keys of a store entry that discovery reads, and a store entry that
\* lacks all of them but the transfer_id.
OrderKeys ==
    {"transfer_id", "source_chain", "dest_chain", "token_address", "amount",
     "secret_hash", "timeout", "created_at"}

MalformedOrderData(t) == [transfer_id |-> t]

\* order_data[key] raises KeyError for a key the entry lacks.
Malformed(d) == ~(OrderKeys \subseteq DOMAIN d)

\* BridgeOrder(...): the object discovery builds from one store entry.
BridgeOrder(d) ==
    [transfer_id |-> d.transfer_id, source_chain |-> d.source_chain,
     dest_chain |-> d.dest_chain, token_address |-> d.token_address,
     amount |-> d.amount, secret_hash |-> d.secret_hash, timeout |-> d.timeout,
     created_at |-> d.created_at, status |-> "pending"]

\* A resolver process publishes an order in the Coordination Store.
PublishOrder(d) ==
    /\ \A i \in DOMAIN store_orders : store_orders[i].transfer_id # d.transfer_id
    /\ d.created_at = now
    /\ store_orders' = Append(store_orders, d)
    /\ UNCHANGED <<daemonVars, now, store_state, store_bids, marketVars, bridgeVars, escrow_chain, retVars>>

\* A process writes an entry without the order's fields to the Coordination
\* Store.
PublishMalformed(t) ==
    /\ \A i \in DOMAIN store_orders : store_orders[i].transfer_id # t
    /\ store_orders' = Append(store_orders, MalformedOrderData(t))
    /\ UNCHANGED <<daemonVars, now, store_state, store_bids, marketVars, bridgeVars, escrow_chain, retVars>>

\* Expired without the comparison: no order is past its timeout.
ExpiredNever(order, time) == FALSE

\* validate_order: False when the order is past its timeout, its token
\* address is empty or not 42 characters long, its amount is not positive,
\* or its secret hash is empty or not 64 characters long.
Expired(order, time) == time > order.created_at + order.timeout

BadTokenAddress(order) ==
    order.token_address.len = 0 \/ order.token_address.len # TOKEN_ADDRESS_LEN

BadSecretHash(order) ==
    order.secret_hash.len = 0 \/ order.secret_hash.len # SECRET_HASH_LEN

validate_order(order, time) ==
    IF Expired(order, time) THEN FALSE
    ELSE IF BadTokenAddress(order) THEN FALSE
    ELSE IF order.amount <= 0 THEN FALSE
    ELSE IF BadSecretHash(order) THEN FALSE
    ELSE TRUE

\* A call of validate_order on the order of store entry i.
ValidateOrder(i) ==
    /\ i \in DOMAIN store_orders
    /\ Return("validate_order", store_orders[i].transfer_id,
              validate_order(BridgeOrder(store_orders[i]), now), <<>>, <<>>, <<>>)
    /\ UNCHANGED <<daemonVars, now, store_orders, store_state, store_bids, marketVars, bridgeVars,
                   escrow_chain>>

\* NotTracked without the look at active_orders: every entry is taken.
NotTrackedOrTracked(d, active) == TRUE

\* The test of discover_bridge_orders on a store entry: its transfer_id is
\* not in active_orders.
NotTracked(d, active) == d.transfer_id \notin Range(active)

\* The loop of discover_bridge_orders over the store's orders, from entry i:
\* an entry that is not tracked and validates is tracked and returned. An
\* untracked entry that lacks a key raises in the loop: the except clause
\* returns [], and the orders tracked so far stay tracked.
RECURSIVE DiscoverLoop(_, _, _, _, _)
DiscoverLoop(data, i, active, heap, found) ==
    IF i > Len(data) THEN [active |-> active, heap |-> heap, found |-> found]
    ELSE LET d == data[i]
             order == BridgeOrder(d)
         IN IF NotTracked(d, active) /\ Malformed(d)
            THEN [active |-> active, heap |-> heap, found |-> <<>>]
            ELSE IF NotTracked(d, active) /\ validate_order(order, now)
            THEN DiscoverLoop(data, i + 1, Append(active, d.transfer_id),
                              With(heap, d.transfer_id, order),
                              Append(found, d.transfer_id))
            ELSE DiscoverLoop(data, i + 1, active, heap, found)

\* The call, whoever makes it; discover_bridge_orders is the call made from
\* outside the daemon.
DiscoverCall ==
    LET r == DiscoverLoop(store_orders, 1, active_orders, order_heap, <<>>)
    IN /\ active_orders' = r.active
       /\ order_heap' = r.heap
       /\ Return("discover_bridge_orders", "", TRUE, <<>>, r.found, <<>>)
       /\ UNCHANGED <<now, store_orders, store_state, store_bids, pending_bids,
                      resolver_reputation, resolver_stakes, resolver_reputation_threshold,
                      claim_log, bridgeVars,
                      escrow_chain>>

discover_bridge_orders == DiscoverCall /\ UNCHANGED daemonVars

\* A resolver is registered with its reputation and its stake.
RegisterResolver(r, reputation, stake) ==
    /\ r \notin DOMAIN resolver_reputation
    /\ resolver_reputation' = With(resolver_reputation, r, reputation)
    /\ resolver_stakes' = With(resolver_stakes, r, stake)
    /\ UNCHANGED <<daemonVars, now, store_orders, store_state, store_bids, order_heap, active_orders,
                   pending_bids, resolver_reputation_threshold, claim_log, bridgeVars,
                   escrow_chain, retVars>>

Get(f, k, default) == IF k \in DOMAIN f THEN f[k] ELSE default

ResolverBid(t, r, bid_price, gas_estimate, reputation, stake) ==
    [transfer_id |-> t, resolver_address |-> r, bid_price |-> bid_price,
     execution_time |-> BID_EXECUTION_TIME, gas_estimate |-> gas_estimate,
     reputation_score |-> reputation, stake_amount |-> stake, submitted_at |-> now]

BidsOf(t) == Get(pending_bids, t, <<>>)

\* BidAccepted without the stake check.
BidAcceptedWithoutStake(t, reputation, stake) ==
    /\ t \in Range(active_orders)
    /\ reputation >= resolver_reputation_threshold

\* The preconditions of submit_bid, in the order the code checks them.
BidAccepted(t, reputation, stake) ==
    /\ t \in Range(active_orders)
    /\ reputation >= resolver_reputation_threshold
    /\ stake >= MIN_RESOLVER_STAKE

submit_bid(t, r, bid_price, gas_estimate) ==
    LET reputation == Get(resolver_reputation, r, 0)
        stake == Get(resolver_stakes, r, 0)
        bid == ResolverBid(t, r, bid_price, gas_estimate, reputation, stake)
        accepted == BidAccepted(t, reputation, stake)
    IN /\ Len(BidsOf(t)) < MaxBids
       /\ pending_bids' = IF accepted THEN With(pending_bids, t, Append(BidsOf(t), bid))
                          ELSE pending_bids
       /\ store_bids' = IF accepted THEN Append(store_bids, bid) ELSE store_bids
       /\ Return("submit_bid", t, accepted, <<>>, <<>>, <<>>)
       /\ UNCHANGED <<daemonVars, now, store_orders, store_state, order_heap, active_orders,
                      resolver_reputation, resolver_stakes, resolver_reputation_threshold,
                      claim_log, bridgeVars,
                      escrow_chain>>

\* The score of one bid, times 1500 * amount:
\*   price_score      = 1 - bid_price / (amount * 0.01)
\*   execution_score  = 1 - execution_time / 300
\*   total_score      = 0.4 price_score + 0.4 reputation_score + 0.2 execution_score
PriceScore(bid, order) == order.amount - 100 * bid.bid_price

\* TotalScore with the reputation term left out.
TotalScoreNoReputation(bid, order) ==
    600 * PriceScore(bid, order)
        + (MAX_EXECUTION_WINDOW - bid.execution_time) * order.amount

TotalScore(bid, order) ==
    600 * PriceScore(bid, order)
        + 6 * bid.reputation_score * order.amount
        + (MAX_EXECUTION_WINDOW - bid.execution_time) * order.amount

\* Whether the loop replaces its best bid by one of this score.
Better(total_score, best_score) == total_score > best_score

\* The loop of select_winning_resolver from bid i: best is <<>> (None) or
\* <<bid>>, best_score starts at 0.
RECURSIVE BestBidLoop(_, _, _, _, _)
BestBidLoop(bids, order, i, best, best_score) ==
    IF i > Len(bids) THEN best
    ELSE IF Better(TotalScore(bids[i], order), best_score)
         THEN BestBidLoop(bids, order, i + 1, <<bids[i]>>, TotalScore(bids[i], order))
         ELSE BestBidLoop(bids, order, i + 1, best, best_score)

\* What select_winning_resolver returns for the bids of one order.
BestBid(bids, order) ==
    IF order.amount = 0 THEN <<>>    \* ZeroDivisionError, caught: None
    ELSE BestBidLoop(bids, order, 1, <<>>, 0)

\* What select_winning_resolver(t) returns: None without bids, None when the
\* order is not tracked (KeyError, caught), else the best bid.
SelectResult(t) ==
    IF t \notin DOMAIN pending_bids \/ pending_bids[t] = <<>> THEN <<>>
    ELSE IF t \notin Range(active_orders) THEN <<>>
    ELSE BestBid(pending_bids[t], order_heap[t])

\* store_bridge_state: the fields of rec are written to the record of t.
Upsert(st, t, rec) ==
    [st EXCEPT ![t] = [f \in DOMAIN st[t] |-> IF f \in DOMAIN rec THEN rec[f] ELSE st[t][f]]]

\* The store after select_winning_resolver(t) returned result.
StoreAfterSelect(t, result) ==
    IF result = <<>> THEN store_state
    ELSE Upsert(store_state, t,
                [winning_resolver |-> result[1].resolver_address,
                 execution_deadline |-> now + result[1].execution_time])

select_winning_resolver(t) ==
    /\ store_state' = StoreAfterSelect(t, SelectResult(t))
    /\ Return("select_winning_resolver", t, SelectResult(t) # <<>>, SelectResult(t),
              <<>>, <<>>)
    /\ UNCHANGED <<daemonVars, now, store_orders, store_bids, marketVars, bridgeVars, escrow_chain>>

\* NewReputation without the clamps.
NewReputationUnclamped(current_reputation, success) ==
    IF success THEN current_reputation + SUCCESS_DELTA
    ELSE current_reputation - FAILURE_DELTA

\* _update_resolver_reputation: the new reputation of a resolver.
NewReputation(current_reputation, success) ==
    IF success THEN Min(current_reputation + SUCCESS_DELTA, MAX_REPUTATION)
    ELSE Max(current_reputation - FAILURE_DELTA, MIN_REPUTATION)

ReputationAfter(r, success) ==
    With(resolver_reputation, r,
         NewReputation(Get(resolver_reputation, r, DEFAULT_REPUTATION), success))

\* A call of _update_resolver_reputation.
update_resolver_reputation(r, success) ==
    /\ resolver_reputation' = ReputationAfter(r, success)
    /\ Return("update_resolver_reputation", r, success, <<>>, <<>>, <<>>)
    /\ UNCHANGED <<daemonVars, now, store_orders, store_state, store_bids, order_heap, active_orders,
                   pending_bids, resolver_stakes, resolver_reputation_threshold, claim_log,
                   bridgeVars, escrow_chain>>

\* SecretMatches comparing the lengths of the two digests only.
SecretMatchesByLength(secret, secret_hash) == Sha256Hex(secret).len = secret_hash.len

\* Whether the digest of the secret is the committed hash (execute_bridge and
\* handle_secret_reveal make the same comparison).
SecretMatches(secret, secret_hash) == Sha256Hex(secret) = secret_hash

Claim(t, chain, ok) == [transfer_id |-> t, chain |-> chain, ok |-> ok]

\* ExecuteOutcome without the authorization check.
ExecuteOutcomeForAnyResolver(t, r, secret, dest_ok, source_ok) ==
    IF t \notin Range(active_orders) THEN "not_found"
    ELSE IF secret = NoneSecret THEN "raised"
    ELSE IF ~SecretMatches(secret, order_heap[t].secret_hash) THEN "invalid_secret"
    ELSE IF ~dest_ok THEN "dest_failed"
    ELSE IF ~source_ok THEN "source_failed"
    ELSE "completed"

\* execute_bridge(t, r, secret); dest_ok and source_ok say whether the claim
\* on that chain succeeds when it is made. outcome names the return path.
ExecuteOutcome(t, r, secret, dest_ok, source_ok) ==
    IF t \notin Range(active_orders) THEN "not_found"
    ELSE IF secret = NoneSecret THEN "raised"
    ELSE IF ~SecretMatches(secret, order_heap[t].secret_hash) THEN "invalid_secret"
    ELSE IF SelectResult(t) = <<>> \/ SelectResult(t)[1].resolver_address # r
         THEN "not_authorized"
    ELSE IF ~dest_ok THEN "dest_failed"
    ELSE IF ~source_ok THEN "source_failed"
    ELSE "completed"

\* ClaimsMade going on to the source claim after a failed destination claim.
ClaimsMadeOnBothChains(t, outcome) ==
    CASE outcome = "dest_failed" -> <<Claim(t, "dest", FALSE), Claim(t, "source", TRUE)>>
      [] outcome = "source_failed" -> <<Claim(t, "dest", TRUE), Claim(t, "source", FALSE)>>
      [] outcome = "completed" -> <<Claim(t, "dest", TRUE), Claim(t, "source", TRUE)>>
      [] OTHER -> <<>>

\* The claim calls of one execute_bridge, in the order it makes them.
ClaimsMade(t, outcome) ==
    CASE outcome = "dest_failed" -> <<Claim(t, "dest", FALSE)>>
      [] outcome = "source_failed" -> <<Claim(t, "dest", TRUE), Claim(t, "source", FALSE)>>
      [] outcome = "completed" -> <<Claim(t, "dest", TRUE), Claim(t, "source", TRUE)>>
      [] OTHER -> <<>>

execute_bridge(t, r, secret, dest_ok, source_ok) ==
    LET outcome == ExecuteOutcome(t, r, secret, dest_ok, source_ok)
        selected == outcome \in {"not_authorized", "dest_failed", "source_failed", "completed"}
        after_select == IF selected THEN StoreAfterSelect(t, SelectResult(t)) ELSE store_state
    IN /\ Len(claim_log) + 2 <= 2 * MaxClaims
       /\ claim_log' = claim_log \o ClaimsMade(t, outcome)
       /\ order_heap' = IF outcome = "completed"
                        THEN [order_heap EXCEPT ![t].status = "completed"]
                        ELSE order_heap
       /\ store_state' = IF outcome = "completed"
                         THEN Upsert(after_select, t, [status |-> "completed"])
                         ELSE after_select
       /\ resolver_reputation' =
            CASE outcome = "completed" -> ReputationAfter(r, TRUE)
              [] outcome = "raised" -> ReputationAfter(r, FALSE)
              [] OTHER -> resolver_reputation
       /\ ReturnOf("execute_bridge", t, secret, outcome = "completed", <<>>, <<>>, <<>>)
       /\ UNCHANGED <<daemonVars, now, store_orders, store_bids, active_orders, pending_bids,
                      resolver_stakes, resolver_reputation_threshold, bridgeVars,
                      escrow_chain>>

\* TimedOut with the deadline itself counted as past.
TimedOutInclusive(order, current_time) == current_time >= order.created_at + order.timeout

\* monitor_order_timeouts: the tracked orders past their timeout.
TimedOut(order, current_time) == current_time > order.created_at + order.timeout

ExpiredOrders == SelectSeq(active_orders, LAMBDA t : TimedOut(order_heap[t], now))

\* BidsAfterTimeouts with the bids of the expired orders kept.
BidsKeptAfterTimeouts(bids, gone) == bids

\* pending_bids once the expired orders were removed with their bids.
BidsAfterTimeouts(bids, gone) == [t \in DOMAIN bids \ gone |-> bids[t]]

MonitorTimeoutsCall ==
    LET expired_orders == ExpiredOrders
        gone == Range(expired_orders)
    IN /\ order_heap' = [t \in DOMAIN order_heap |->
                            IF t \in gone THEN [order_heap[t] EXCEPT !.status = "expired"]
                            ELSE order_heap[t]]
       /\ active_orders' = SelectSeq(active_orders, LAMBDA t : t \notin gone)
       /\ pending_bids' = BidsAfterTimeouts(pending_bids, gone)
       /\ Return("monitor_order_timeouts", "", TRUE, <<>>, expired_orders, <<>>)
       /\ UNCHANGED <<now, store_orders, store_state, store_bids, resolver_reputation,
                      resolver_stakes, resolver_reputation_threshold, claim_log,
                      bridgeVars, escrow_chain>>

monitor_order_timeouts == MonitorTimeoutsCall /\ UNCHANGED daemonVars

\* ---------------------------------------------------- BridgeCoordinator
\* get_bridge_coordination(t): the order metadata the store holds for t, as
\* <<metadata>>, or <<>> when it holds none.
StoredState(t) == SelectSeq(store_orders, LAMBDA d : d.transfer_id = t)

\* The escrow contracts move on their chains: an escrow is claimed (which
\* reveals the secret) or refunded.
EscrowOutcomes == {[status |-> "claimed", secret_revealed |-> TRUE],
                   [status |-> "refunded", secret_revealed |-> FALSE]}

ChainStep(t, side, outcome) ==
    /\ escrow_chain[t][side].status = "pending"
    /\ escrow_chain' = [escrow_chain EXCEPT ![t][side] = outcome]
    /\ UNCHANGED <<daemonVars, now, store_orders, store_state, store_bids, marketVars, bridgeVars, retVars>>

\* _get_escrow_state: the state of the escrow on one chain, or
\* {'status': 'error'} when reading it raises.
get_escrow_state(t, side, read_ok) ==
    IF read_ok THEN escrow_chain[t][side]
    ELSE [status |-> "error", secret_revealed |-> FALSE]

\* BridgeState(...) as sync_bridge_state builds it; old is what
\* bridge_states held for the transfer, <<>> when it held nothing.
SyncedWithHistory(old, stored, source_state, dest_state, time) ==
    [transfer_id |-> stored.transfer_id,
     source_chain |-> stored.source_chain,
     dest_chain |-> stored.dest_chain,
     source_escrow_state |-> source_state.status,
     dest_escrow_state |-> dest_state.status,
     secret_revealed |-> source_state.secret_revealed \/ dest_state.secret_revealed,
     secret_hash |-> stored.secret_hash,
     last_sync |-> time,
     events |-> IF old = <<>> THEN <<time>> ELSE Append(old[1].events, time)]

SyncedBridgeState(old, stored, source_state, dest_state, time) ==
    [transfer_id |-> stored.transfer_id,
     source_chain |-> stored.source_chain,
     dest_chain |-> stored.dest_chain,
     source_escrow_state |-> source_state.status,
     dest_escrow_state |-> dest_state.status,
     secret_revealed |-> source_state.secret_revealed \/ dest_state.secret_revealed,
     secret_hash |-> stored.secret_hash,
     last_sync |-> time,
     events |-> <<>>]

\* bridge_states and the store after a sync_bridge_state(t) that found the
\* order metadata and read source_state and dest_state at the given time.
SyncBridgeStates(states, t, source_state, dest_state, time) ==
    With(states, t,
         SyncedBridgeState(IF t \in DOMAIN states THEN <<states[t]>> ELSE <<>>,
                           StoredState(t)[1], source_state, dest_state, time))

SyncStore(store, t, source_state, dest_state, time) ==
    Upsert(store, t,
           [source_escrow_state |-> source_state.status,
            dest_escrow_state |-> dest_state.status,
            secret_revealed |-> source_state.secret_revealed \/ dest_state.secret_revealed,
            last_sync |-> time])

\* sync_bridge_state persisting a marker for a transfer it did not find.
SyncRecordingNotFound(t, source_ok, dest_ok) ==
    LET source_state == get_escrow_state(t, "source", source_ok)
        dest_state == get_escrow_state(t, "dest", dest_ok)
    IN IF StoredState(t) = <<>>
       THEN /\ store_state' = [store_state EXCEPT ![t].status = "not_found"]
            /\ Return("sync_bridge_state", t, FALSE, <<>>, <<>>, <<>>)
            /\ UNCHANGED <<daemonVars, now, store_orders, store_bids, marketVars,
                           bridgeVars, escrow_chain>>
       ELSE /\ bridge_states' = SyncBridgeStates(bridge_states, t, source_state, dest_state, now)
            /\ store_state' = SyncStore(store_state, t, source_state, dest_state, now)
            /\ Return("sync_bridge_state", t, TRUE, <<>>, <<>>, <<>>)
            /\ UNCHANGED <<daemonVars, now, store_orders, store_bids, marketVars, escrow_events,
                           trigger_log, sync_reads, escrow_chain>>

sync_bridge_state(t, source_ok, dest_ok) ==
    LET source_state == get_escrow_state(t, "source", source_ok)
        dest_state == get_escrow_state(t, "dest", dest_ok)
    IN IF StoredState(t) = <<>>
       THEN /\ Return("sync_bridge_state", t, FALSE, <<>>, <<>>, <<>>)
            /\ UNCHANGED <<daemonVars, now, store_orders, store_state, store_bids, marketVars,
                           bridgeVars, escrow_chain>>
       ELSE /\ bridge_states' = SyncBridgeStates(bridge_states, t, source_state, dest_state, now)
            /\ store_state' = SyncStore(store_state, t, source_state, dest_state, now)
            /\ Return("sync_bridge_state", t, TRUE, <<>>, <<>>, <<>>)
            /\ UNCHANGED <<daemonVars, now, store_orders, store_bids, marketVars, escrow_events,
                           trigger_log, sync_reads, escrow_chain>>

\* sync_bridge_state(t) up to the end of its awaits on the store and on the
\* two chains: it holds what it read. seen is the BridgeState of t at that
\* moment, <<>> when there was none.
sync_begin(t, source_ok, dest_ok) ==
    /\ sync_reads[t] = <<>>
    /\ StoredState(t) # <<>>
    /\ sync_reads' = [sync_reads EXCEPT ![t] =
                         <<[source_state |-> get_escrow_state(t, "source", source_ok),
                            dest_state |-> get_escrow_state(t, "dest", dest_ok),
                            seen |-> IF t \in DOMAIN bridge_states
                                     THEN <<bridge_states[t]>> ELSE <<>>]>>]
    /\ UNCHANGED <<daemonVars, now, store_orders, store_state, store_bids, marketVars,
                   bridge_states, escrow_events, trigger_log, escrow_chain, retVars>>

\* The rest of that sync_bridge_state(t): the BridgeState is built from what
\* was read and stored.
sync_finish(t) ==
    /\ sync_reads[t] # <<>>
    /\ LET source_state == sync_reads[t][1].source_state
           dest_state == sync_reads[t][1].dest_state
       IN /\ bridge_states' = SyncBridgeStates(bridge_states, t, source_state, dest_state, now)
          /\ store_state' = SyncStore(store_state, t, source_state, dest_state, now)
    /\ sync_reads' = [sync_reads EXCEPT ![t] = <<>>]
    /\ Return("sync_bridge_state", t, TRUE, <<>>, <<>>, <<>>)
    /\ UNCHANGED <<daemonVars, now, store_orders, store_bids, marketVars, escrow_events,
                   trigger_log, escrow_chain>>

\* _is_new_event: no event of the same transfer has the same transaction
\* hash and block number.
SameKey(existing_event, event) ==
    /\ existing_event.transaction_hash = event.transaction_hash
    /\ existing_event.block_number = event.block_number

\* is_new_event finding no stored event equal to the new one.
IsNewEventNeverMatches(events, event) ==
    IF event.transfer_id \notin DOMAIN events THEN TRUE
    ELSE \A i \in DOMAIN events[event.transfer_id] :
            ~(SameKey(events[event.transfer_id][i], event)
                /\ events[event.transfer_id][i].transaction_hash = event.chain_id)

is_new_event(events, event) ==
    IF event.transfer_id \notin DOMAIN events THEN TRUE
    ELSE \A i \in DOMAIN events[event.transfer_id] :
            ~SameKey(events[event.transfer_id][i], event)

\* _handle_timeout: both escrows are marked expired, and the store is told.
HandleTimeoutStates(states, t) ==
    IF t \notin DOMAIN states THEN states
    ELSE [states EXCEPT ![t].source_escrow_state = "expired",
                        ![t].dest_escrow_state = "expired"]

HandleTimeoutStore(states, store, t) ==
    IF t \notin DOMAIN states THEN store
    ELSE Upsert(store, t, [status |-> "expired"])

\* HandleEventStates taking the source side for the destination side.
HandleEventStatesOtherSide(states, event, time) ==
    LET t == event.transfer_id
        source_side == event.chain_id # states[t].source_chain
        applied ==
            CASE event.event_type = "claimed" ->
                    IF source_side THEN [states EXCEPT ![t].source_escrow_state = "claimed"]
                    ELSE [states EXCEPT ![t].dest_escrow_state = "claimed"]
              [] event.event_type = "refunded" ->
                    IF source_side THEN [states EXCEPT ![t].source_escrow_state = "refunded"]
                    ELSE [states EXCEPT ![t].dest_escrow_state = "refunded"]
              [] event.event_type = "expired" -> HandleTimeoutStates(states, t)
              [] OTHER -> states
    IN IF t \notin DOMAIN states THEN states
       ELSE [applied EXCEPT ![t].last_sync = time]

\* _handle_escrow_event: bridge_states after one event. An event of a
\* transfer without a BridgeState raises KeyError, which is caught.
HandleEventStates(states, event, time) ==
    LET t == event.transfer_id
        source_side == event.chain_id = states[t].source_chain
        applied ==
            CASE event.event_type = "claimed" ->
                    IF source_side THEN [states EXCEPT ![t].source_escrow_state = "claimed"]
                    ELSE [states EXCEPT ![t].dest_escrow_state = "claimed"]
              [] event.event_type = "refunded" ->
                    IF source_side THEN [states EXCEPT ![t].source_escrow_state = "refunded"]
                    ELSE [states EXCEPT ![t].dest_escrow_state = "refunded"]
              [] event.event_type = "expired" -> HandleTimeoutStates(states, t)
              [] OTHER -> states
    IN IF t \notin DOMAIN states THEN states
       ELSE [applied EXCEPT ![t].last_sync = time]

HandleEventStore(states, store, event) ==
    IF event.event_type = "expired"
    THEN HandleTimeoutStore(states, store, event.transfer_id)
    ELSE store

\* MonitorLoop left by the KeyError of an event without a BridgeState.
RECURSIVE MonitorLoopLeftByKeyError(_, _, _, _, _, _)
MonitorLoopLeftByKeyError(batch, i, events, states, store, new_events) ==
    IF i > Len(batch)
    THEN [events |-> events, states |-> states, store |-> store, new_events |-> new_events]
    ELSE IF is_new_event(events, batch[i])
         THEN IF batch[i].transfer_id \notin DOMAIN states
              THEN [events |-> With(events, batch[i].transfer_id,
                                    Append(Get(events, batch[i].transfer_id, <<>>), batch[i])),
                    states |-> states, store |-> store, new_events |-> <<>>]
              ELSE MonitorLoopLeftByKeyError(batch, i + 1,
                          With(events, batch[i].transfer_id,
                               Append(Get(events, batch[i].transfer_id, <<>>), batch[i])),
                          HandleEventStates(states, batch[i], now),
                          HandleEventStore(states, store, batch[i]),
                          Append(new_events, batch[i]))
         ELSE MonitorLoopLeftByKeyError(batch, i + 1, events, states, store, new_events)

\* The loop of monitor_escrow_events over the events read, from event i.
RECURSIVE MonitorLoop(_, _, _, _, _, _)
MonitorLoop(batch, i, events, states, store, new_events) ==
    IF i > Len(batch)
    THEN [events |-> events, states |-> states, store |-> store, new_events |-> new_events]
    ELSE IF is_new_event(events, batch[i])
         THEN MonitorLoop(batch, i + 1,
                          With(events, batch[i].transfer_id,
                               Append(Get(events, batch[i].transfer_id, <<>>), batch[i])),
                          HandleEventStates(states, batch[i], now),
                          HandleEventStore(states, store, batch[i]),
                          Append(new_events, batch[i]))
         ELSE MonitorLoop(batch, i + 1, events, states, store, new_events)

\* monitor_escrow_events, when the chains deliver the events of batch.
MonitorEventsCall(batch) ==
    LET r == MonitorLoop(batch, 1, escrow_events, bridge_states, store_state, <<>>)
    IN /\ \A t \in DOMAIN r.events : Len(r.events[t]) <= MaxEvents
       /\ escrow_events' = r.events
       /\ bridge_states' = r.states
       /\ store_state' = r.store
       /\ Return("monitor_escrow_events", "", TRUE, <<>>, <<>>, r.new_events)
       /\ UNCHANGED <<now, store_orders, store_bids, marketVars, trigger_log, sync_reads,
                      escrow_chain>>

monitor_escrow_events(batch) == MonitorEventsCall(batch) /\ UNCHANGED daemonVars

\* handle_secret_reveal(t, secret); outcome names the return path.
RevealOutcome(t, secret) ==
    IF t \notin DOMAIN bridge_states THEN "not_found"
    ELSE IF secret = NoneSecret THEN "raised"
    ELSE IF ~SecretMatches(secret, bridge_states[t].secret_hash) THEN "invalid_secret"
    ELSE IF bridge_states[t].secret_revealed THEN "already_revealed"
    ELSE "revealed"

handle_secret_reveal(t, secret) ==
    LET outcome == RevealOutcome(t, secret)
    IN /\ Len(trigger_log) < MaxTriggers
       /\ IF outcome = "revealed"
          THEN /\ bridge_states' = [bridge_states EXCEPT ![t].secret_revealed = TRUE,
                                                         ![t].last_sync = now]
               /\ store_state' = Upsert(store_state, t,
                                        [secret_revealed |-> TRUE, secret |-> secret,
                                         execution_trigger |-> secret])
               /\ trigger_log' = Append(trigger_log, t)
          ELSE UNCHANGED <<bridge_states, store_state, trigger_log>>
       /\ ReturnOf("handle_secret_reveal", t, secret,
                   outcome \in {"revealed", "already_revealed"}, <<>>, <<>>, <<>>)
       /\ UNCHANGED <<daemonVars, now, store_orders, store_bids, marketVars, escrow_events,
                      sync_reads, escrow_chain>>

\* ------------------------------------------------------- ResolverDaemon
\* start() up to its gather: running is set and the five loops are created.
start ==
    /\ daemon_pc = "constructed"
    /\ running' = TRUE
    /\ daemon_pc' = "running"
    /\ activity_pc' = [a \in Activities |-> "ready"]
    /\ UNCHANGED <<trackVars, monitor_pc, daemon_config, resolver_stats, signal_received, now,
                   store_orders, store_state, store_bids, marketVars, bridgeVars, escrow_chain,
                   retVars>>

\* _signal_handler, installed by __init__: a signal is delivered while the
\* process lives.
signal_handler ==
    /\ daemon_pc # "terminated"
    /\ running' = FALSE
    /\ signal_received' = TRUE
    /\ UNCHANGED <<trackVars, monitor_pc, daemon_config, resolver_stats, daemon_pc, activity_pc,
                   now, store_orders, store_state, store_bids, marketVars, bridgeVars,
                   escrow_chain, retVars>>

\* The frame of a step that only moves one loop.
LoopStepOnly ==
    UNCHANGED <<trackVars, daemon_config, resolver_stats, running, signal_received, daemon_pc, now,
                store_orders, store_state, store_bids, marketVars, bridgeVars, escrow_chain,
                retVars>>

\* `while self.running:` of the loop a.
activity_check(a) ==
    /\ activity_pc[a] = "ready"
    /\ activity_pc' = [activity_pc EXCEPT ![a] = IF running THEN "iterating" ELSE "stopped"]
    /\ UNCHANGED monitor_pc
    /\ LoopStepOnly

\* The sleep that ends an iteration of the loop a, or its except clause,
\* is over.
activity_wake(a) ==
    /\ activity_pc[a] \in {"sleeping", "failed"}
    /\ activity_pc' = [activity_pc EXCEPT ![a] = "ready"]
    /\ UNCHANGED monitor_pc
    /\ LoopStepOnly

\* Where an exception raised in an iteration leaves the loop, when no except
\* clause catches it.
LoopLeftByException(a) == "stopped"

\* Where an exception raised in an iteration leaves the loop: in the sleep
\* of its `except Exception` clause.
LoopAfterException(a) == "failed"

\* An await of an iteration of the loop a raises.
activity_fail(a) ==
    /\ activity_pc[a] = "iterating"
    /\ activity_pc' = [activity_pc EXCEPT ![a] = LoopAfterException(a)]
    /\ monitor_pc' = IF a = "monitor" THEN "discover" ELSE monitor_pc
    /\ LoopStepOnly

\* HasCapacity without the count: there is always room for a task.
HasCapacityAlways(operations) == TRUE

\* len(self.active_operations) < max_concurrent_operations.
HasCapacity(operations) ==
    Cardinality(operations) < daemon_config.max_concurrent_operations

\* The loop of _monitor_bridge_events after discover_bridge_orders returned
\* found: every order not yet monitored is monitored, and gets a monitoring
\* task while fewer than max_concurrent_operations tasks exist.
RECURSIVE StartMonitoring(_, _, _, _)
StartMonitoring(found, i, monitored, operations) ==
    IF i > Len(found) THEN [monitored |-> monitored, operations |-> operations]
    ELSE IF found[i] \in monitored
         THEN StartMonitoring(found, i + 1, monitored, operations)
         ELSE StartMonitoring(found, i + 1, monitored \cup {found[i]},
                              IF HasCapacity(operations)
                              THEN operations \cup {found[i]}
                              ELSE operations)

\* task.cancel() on the tasks of the transfers in ids: a task that has not
\* finished is cancelled at its next await.
Cancel(tasks, ids) ==
    [t \in TransferIds |-> IF t \in ids /\ tasks[t] = "running" THEN "cancelled" ELSE tasks[t]]

\* MonitoredAfterTimeouts with the expired transfers kept.
MonitoredKeepingExpired(monitored, expired) == monitored

\* monitored_orders once the transfers of expired were handled.
MonitoredAfterTimeouts(monitored, expired) == monitored \ expired

\* One iteration of _monitor_bridge_events, in the three calls it awaits.
daemon_discover ==
    /\ activity_pc["monitor"] = "iterating"
    /\ monitor_pc = "discover"
    /\ DiscoverCall
    /\ LET r == StartMonitoring(ret_ids', 1, monitored_orders, active_operations)
       IN /\ monitored_orders' = r.monitored
          /\ active_operations' = r.operations
          /\ task_state' = [t \in TransferIds |->
                               IF t \in r.operations \ active_operations THEN "running"
                               ELSE task_state[t]]
    /\ monitor_pc' = "events"
    /\ UNCHANGED <<daemon_config, resolver_stats, loopVars>>

daemon_events(batch) ==
    /\ activity_pc["monitor"] = "iterating"
    /\ monitor_pc = "events"
    /\ MonitorEventsCall(batch)
    /\ monitor_pc' = "timeouts"
    /\ UNCHANGED <<trackVars, daemon_config, resolver_stats, loopVars>>

daemon_timeouts ==
    /\ activity_pc["monitor"] = "iterating"
    /\ monitor_pc = "timeouts"
    /\ MonitorTimeoutsCall
    /\ task_state' = Cancel(task_state, active_operations \cap Range(ret_ids'))
    /\ active_operations' = active_operations \ Range(ret_ids')
    /\ monitored_orders' = MonitoredAfterTimeouts(monitored_orders, Range(ret_ids'))
    /\ monitor_pc' = "discover"
    /\ activity_pc' = [activity_pc EXCEPT !["monitor"] = "sleeping"]
    /\ UNCHANGED <<daemon_config, resolver_stats, running, signal_received, daemon_pc>>

\* The keys of the dictionary get_bridge_status returns: the status report
\* when the coordinator has a BridgeState, the error otherwise.
BridgeStatusKeys(found) ==
    IF found
    THEN {"transfer_id", "source_chain", "dest_chain", "source_escrow_state",
          "dest_escrow_state", "secret_revealed", "last_sync", "coordination_data",
          "events"}
    ELSE {"error"}

\* _get_order_status: bridge_state.get('status', 'unknown') on that
\* dictionary; stored_status is the value a 'status' key would carry.
get_order_status(found, stored_status) ==
    IF "status" \in BridgeStatusKeys(found) THEN stored_status ELSE "unknown"

\* One iteration of the loop of _monitor_single_order(t). get_bridge_status
\* syncs first when the coordinator has no BridgeState for t.
monitor_single_order(t, source_ok, dest_ok) ==
    LET syncs == t \notin DOMAIN bridge_states /\ StoredState(t) # <<>>
        source_state == get_escrow_state(t, "source", source_ok)
        dest_state == get_escrow_state(t, "dest", dest_ok)
        found == t \in DOMAIN bridge_states \/ syncs
        status == get_order_status(found, store_state[t].status)
        changed == status # order_heap[t].status
        done == changed /\ status \in {"completed", "expired"}
    IN /\ task_state[t] = "running"
       /\ running
       /\ t \in active_operations
       /\ t \in monitored_orders
       /\ bridge_states' = IF syncs
                           THEN SyncBridgeStates(bridge_states, t, source_state, dest_state, now)
                           ELSE bridge_states
       /\ store_state' = IF syncs
                         THEN SyncStore(store_state, t, source_state, dest_state, now)
                         ELSE store_state
       /\ order_heap' = [order_heap EXCEPT ![t].status = status]
       /\ active_operations' = IF done THEN active_operations \ {t} ELSE active_operations
       /\ monitored_orders' = IF done THEN monitored_orders \ {t} ELSE monitored_orders
       /\ task_state' = IF done THEN [task_state EXCEPT ![t] = "done"] ELSE task_state
       /\ Return("monitor_single_order", t, changed, <<>>, <<>>, <<>>)
       /\ UNCHANGED <<now, store_orders, store_bids, active_orders, pending_bids,
                      resolver_reputation, resolver_stakes, resolver_reputation_threshold,
                      claim_log, escrow_events, trigger_log, sync_reads, escrow_chain,
                      monitor_pc,
                      daemon_config, resolver_stats, loopVars>>

\* The task of _monitor_single_order(t) ends: its loop condition fails, or
\* the cancellation reaches it at its await.
monitor_task_exit(t) ==
    /\ \/ task_state[t] = "cancelled"
       \/ task_state[t] = "running" /\ ~(running /\ t \in monitored_orders)
    /\ task_state' = [task_state EXCEPT ![t] = "done"]
    /\ UNCHANGED <<monitored_orders, active_operations, monitor_pc, daemon_config,
                   resolver_stats, loopVars, now, store_orders, store_state, store_bids,
                   marketVars, bridgeVars, escrow_chain, retVars>>

\* _get_existing_bids.
get_existing_bids(t) == <<>>

\* _get_winning_bids.
get_winning_bids == <<>>

\* _estimate_chain_gas_cost, in hundredths: gas price times 150000.
ChainGasCost(chain_id) ==
    CASE chain_id = "sepolia" -> 300
      [] chain_id = "celo_alfajores" -> 15
      [] chain_id = "monad" -> 150
      [] chain_id = "etherlink" -> 225
      [] chain_id = "polkadot_westend" -> 15
      [] OTHER -> 300

\* PotentialFee with 10% of the amount.
PotentialFeeTenPercent(order) == order.amount * 100

\* The potential fee of an order, in thousandths: 0.1% of the amount.
PotentialFee(order) == order.amount

\* _calculate_order_profitability, as the fraction num / den; 0.0 when the
\* division raises.
calculate_order_profitability(order) ==
    IF order.amount = 0 THEN [num |-> 0, den |-> 1]
    ELSE [num |-> PotentialFee(order)
                    - 10 * (ChainGasCost(order.source_chain) + ChainGasCost(order.dest_chain)),
          den |-> 1000 * order.amount]

\* BelowMinProfit with every order found profitable.
BelowNoProfit(p) == FALSE

\* profitability < 0.01.
BelowMinProfit(p) ==
    IF p.den > 0 THEN MIN_PROFIT_DIVISOR * p.num < p.den
    ELSE MIN_PROFIT_DIVISOR * p.num > p.den

\* The loop of _should_bid_on_order over existing_bids.
HasOwnBid(existing_bids) ==
    \E i \in DOMAIN existing_bids :
        existing_bids[i].resolver_address = daemon_config.resolver_address

\* _should_bid_on_order.
should_bid_on_order(order) ==
    /\ ~HasOwnBid(get_existing_bids(order.transfer_id))
    /\ ~BelowMinProfit(calculate_order_profitability(order))
    /\ ~(daemon_config.stake_amount < DAEMON_MIN_STAKE)
    /\ ~(resolver_stats.reputation_score < DAEMON_MIN_REPUTATION)

\* int(n / d).
Trunc(n, d) == IF n >= 0 THEN n \div d ELSE -((-n) \div d)

\* min(bid['bid_price'] for bid in existing_bids).
MinBidPrice(existing_bids) ==
    CHOOSE p \in {existing_bids[i].bid_price : i \in DOMAIN existing_bids} :
        \A i \in DOMAIN existing_bids : p <= existing_bids[i].bid_price

\* CompetitivePrice without the minimum viable price.
CompetitivePriceUnfloored(amount, existing_bids) ==
    Trunc(MinBidPrice(existing_bids) * 95, 100)

\* The price for competing bids: 5% below the lowest, at least 0.01% of the
\* amount.
CompetitivePrice(amount, existing_bids) ==
    Max(Trunc(MinBidPrice(existing_bids) * 95, 100), Trunc(amount, 10000))

\* _calculate_optimal_bid_price on the bids _get_existing_bids gave it.
calculate_optimal_bid_price(amount, existing_bids) ==
    IF existing_bids = <<>> THEN Trunc(amount * 5, 10000)
    ELSE CompetitivePrice(amount, existing_bids)

\* A call of _calculate_optimal_bid_price for an order of this amount, with
\* existing_bids the bids its query returned; the result is kept with its
\* inputs.
optimal_bid_price_call(amount, existing_bids) ==
    /\ ret' = [op |-> "calculate_optimal_bid_price", transfer_id |-> "", secret |-> "",
               ok |-> TRUE, new_events |-> 0, amount |-> amount,
               price |-> calculate_optimal_bid_price(amount, existing_bids)]
    /\ ret_bid' = existing_bids
    /\ ret_ids' = <<>>
    /\ UNCHANGED <<daemonVars, now, store_orders, store_state, store_bids, marketVars,
                   bridgeVars, escrow_chain>>

\* The place of a transfer in monitored_orders.items().
IdOrder(t) == IF t = "t1" THEN 1 ELSE 2

\* The transfers of a set in that order.
RECURSIVE SeqOf(_)
SeqOf(ids) ==
    IF ids = {} THEN <<>>
    ELSE LET t == CHOOSE x \in ids : \A y \in ids : IdOrder(x) <= IdOrder(y)
         IN <<t>> \o SeqOf(ids \ {t})

\* The loop of _auto_bid_on_orders over orders_to_bid from i, on the bids
\* and the statistics so far: _submit_competitive_bid for each.
RECURSIVE SubmitBids(_, _, _)
SubmitBids(orders, i, acc) ==
    IF i > Len(orders) THEN acc
    ELSE LET t == orders[i]
             r == daemon_config.resolver_address
             reputation == Get(resolver_reputation, r, 0)
             stake == Get(resolver_stakes, r, 0)
             bid_price == calculate_optimal_bid_price(order_heap[t].amount,
                                                      get_existing_bids(t))
             bid == ResolverBid(t, r, bid_price, GAS_ESTIMATE, reputation, stake)
             success == BidAccepted(t, reputation, stake)
         IN SubmitBids(orders, i + 1,
                IF success
                THEN [pending |-> With(acc.pending, t, Append(Get(acc.pending, t, <<>>), bid)),
                      store |-> Append(acc.store, bid),
                      stats |-> [acc.stats EXCEPT !.total_bids = @ + 1,
                                                  !.last_activity = now]]
                ELSE acc)

\* One iteration of _auto_bid_on_orders.
daemon_auto_bid ==
    LET candidates == {t \in monitored_orders :
                          /\ order_heap[t].status = "pending"
                          /\ should_bid_on_order(order_heap[t])}
        orders_to_bid == IF daemon_config.auto_bid_enabled THEN SeqOf(candidates) ELSE <<>>
        r == SubmitBids(orders_to_bid, 1,
                        [pending |-> pending_bids, store |-> store_bids,
                         stats |-> resolver_stats])
    IN /\ activity_pc["auto_bid"] = "iterating"
       /\ \A t \in Range(orders_to_bid) : Len(BidsOf(t)) < MaxBids
       /\ pending_bids' = r.pending
       /\ store_bids' = r.store
       /\ resolver_stats' = r.stats
       /\ activity_pc' = [activity_pc EXCEPT !["auto_bid"] = "sleeping"]
       /\ Return("auto_bid_on_orders", "", TRUE, <<>>, orders_to_bid, <<>>)
       /\ UNCHANGED <<trackVars, monitor_pc, daemon_config, running, signal_received, daemon_pc, now,
                      store_orders, store_state, order_heap, active_orders,
                      resolver_reputation, resolver_stakes, resolver_reputation_threshold,
                      claim_log, bridgeVars, escrow_chain>>

\* One iteration of _execute_winning_bids: _get_winning_bids gives no bid
\* to execute.
daemon_execute_winning_bids ==
    /\ activity_pc["execute"] = "iterating"
    /\ get_winning_bids = <<>>
    /\ activity_pc' = [activity_pc EXCEPT !["execute"] = "sleeping"]
    /\ UNCHANGED monitor_pc
    /\ LoopStepOnly

\* _update_resolver_stats: the reputation after comparing the success rate
\* with 0.9 and 0.7.
UpdatedReputation(stats) ==
    LET s == stats.successful_executions
        total_operations == s + stats.failed_executions
    IN IF total_operations > 0 /\ 10 * s > 9 * total_operations
       THEN Min(stats.reputation_score + 1, MAX_REPUTATION)
       ELSE IF total_operations > 0 /\ 10 * s < 7 * total_operations
            THEN Max(stats.reputation_score - 2, MIN_REPUTATION)
            ELSE stats.reputation_score

\* One iteration of _maintain_resolver_reputation.
daemon_maintain_reputation ==
    /\ activity_pc["reputation"] = "iterating"
    /\ resolver_stats' = [resolver_stats EXCEPT
                             !.reputation_score = UpdatedReputation(resolver_stats)]
    /\ activity_pc' = [activity_pc EXCEPT !["reputation"] = "sleeping"]
    /\ UNCHANGED <<trackVars, monitor_pc, daemon_config, running, signal_received, daemon_pc, now,
                   store_orders, store_state, store_bids, marketVars, bridgeVars,
                   escrow_chain, retVars>>

\* The operations _cleanup_expired_operations collects: those whose task is
\* done, and all of them once the resolver was inactive for an hour.
ExpiredOperations ==
    {t \in active_operations :
        task_state[t] = "done" \/ now - resolver_stats.last_activity > INACTIVITY_LIMIT}

\* One iteration of _cleanup_expired_operations.
daemon_cleanup ==
    /\ activity_pc["cleanup"] = "iterating"
    /\ task_state' = Cancel(task_state, ExpiredOperations)
    /\ active_operations' = active_operations \ ExpiredOperations
    /\ monitored_orders' = monitored_orders \ ExpiredOperations
    /\ resolver_stats' = IF now - resolver_stats.last_activity > STATS_RESET_AFTER
                         THEN [resolver_stats EXCEPT !.last_activity = now]
                         ELSE resolver_stats
    /\ activity_pc' = [activity_pc EXCEPT !["cleanup"] = "sleeping"]
    /\ UNCHANGED <<monitor_pc, daemon_config, running, signal_received, daemon_pc, now, store_orders,
                   store_state, store_bids, marketVars, bridgeVars, escrow_chain, retVars>>

\* The gather of start() returned, and _shutdown cancels every task of
\* active_operations.
shutdown_cancel ==
    /\ daemon_pc = "running"
    /\ \A a \in Activities : activity_pc[a] = "stopped"
    /\ task_state' = Cancel(task_state, active_operations)
    /\ daemon_pc' = "shutting_down"
    /\ UNCHANGED <<monitored_orders, active_operations, monitor_pc, daemon_config,
                   resolver_stats, running, signal_received, activity_pc, now, store_orders, store_state,
                   store_bids, marketVars, bridgeVars, escrow_chain, retVars>>

\* What _shutdown waits for: the gather over the tasks of active_operations.
ShutdownAwaited(tasks, operations) == \A t \in operations : tasks[t] = "done"

\* _shutdown returns, and start() with it.
shutdown_complete ==
    /\ daemon_pc = "shutting_down"
    /\ ShutdownAwaited(task_state, active_operations)
    /\ daemon_pc' = "terminated"
    /\ UNCHANGED <<trackVars, monitor_pc, daemon_config, resolver_stats, running, signal_received,
                   activity_pc, now, store_orders, store_state, store_bids, marketVars,
                   bridgeVars, escrow_chain, retVars>>

\* ------------------------------------------------------- specifications
AmountInputs == {0, 1000}
TimeoutInputs == {1, 2}
BidPrices == {5, 30}
\* The (reputation, stake) pairs a resolver registers with.
RegisterInputs == {<<70, 1000>>, <<99, 1000>>, <<70, 500>>}

AllOrderData ==
    {OrderData("t1", amt, tok, h, to, now) :
        amt \in AmountInputs, tok \in AddressStrings,
        h \in HashStrings, to \in TimeoutInputs}

ValidOrderData(ids) ==
    {OrderData(t, 1000, GoodAddress, Sha256Hex("abc123"), 1, now) : t \in ids}

AuctionIds == {"t1"}
AuctionRegisterInputs == {<<70, 1000>>, <<99, 1000>>}

\* validate_order on the orders of the store.
NextValidate ==
    \/ Tick
    \/ \E d \in AllOrderData : PublishOrder(d)
    \/ \E i \in 1..Cardinality(TransferIds) : ValidateOrder(i)

SpecValidate == Init /\ [][NextValidate]_vars

\* The auction: discovery, registration, bidding, winner selection.
NextAuction ==
    \/ Tick
    \/ \E d \in ValidOrderData(AuctionIds) : PublishOrder(d)
    \/ discover_bridge_orders
    \/ \E r \in Resolvers, in \in AuctionRegisterInputs : RegisterResolver(r, in[1], in[2])
    \/ \E t \in AuctionIds, r \in Resolvers, p \in BidPrices :
            submit_bid(t, r, p, GAS_ESTIMATE)
    \/ \E t \in AuctionIds : select_winning_resolver(t)

SpecAuction == Init /\ [][NextAuction]_vars

\* Order expiry, with two orders and the bids of one resolver.
TimeoutRegisterInputs == {<<70, 1000>>}
TimeoutBidders == {"rA"}
TimeoutBidPrices == {5}

NextTimeout ==
    \/ Tick
    \/ \E d \in ValidOrderData(TransferIds) : PublishOrder(d)
    \/ discover_bridge_orders
    \/ \E r \in TimeoutBidders, in \in TimeoutRegisterInputs : RegisterResolver(r, in[1], in[2])
    \/ \E t \in TransferIds, r \in TimeoutBidders, p \in TimeoutBidPrices :
            submit_bid(t, r, p, GAS_ESTIMATE)
    \/ \E t \in TransferIds : select_winning_resolver(t)
    \/ monitor_order_timeouts

SpecTimeout == Init /\ [][NextTimeout]_vars

\* Rediscovery: orders are published, discovered and expired while the clock
\* advances, and discovered again.
NextRediscover ==
    \/ Tick
    \/ \E d \in ValidOrderData(TransferIds) : PublishOrder(d)
    \/ discover_bridge_orders
    \/ monitor_order_timeouts

SpecRediscover == Init /\ [][NextRediscover]_vars

\* Discovery by the daemon over a store that also holds entries without the
\* order's fields.
NextMalformed ==
    \/ start
    \/ activity_check("monitor")
    \/ activity_wake("monitor")
    \/ Tick
    \/ \E d \in ValidOrderData(TransferIds) : PublishOrder(d)
    \/ \E t \in TransferIds : PublishMalformed(t)
    \/ daemon_discover
    \/ daemon_events(<<>>)
    \/ daemon_timeouts

SpecMalformed == Init /\ [][NextMalformed]_vars

\* The bid table: bids on tracked and untracked transfers, and orders that
\* expire with their bids.
NextBidTable ==
    \/ Tick
    \/ \E d \in ValidOrderData(TransferIds) : now = 0 /\ PublishOrder(d)
    \/ discover_bridge_orders
    \/ \E in \in TimeoutRegisterInputs : RegisterResolver("rA", in[1], in[2])
    \/ \E t \in TransferIds, p \in TimeoutBidPrices : submit_bid(t, "rA", p, GAS_ESTIMATE)
    \/ monitor_order_timeouts

SpecBidTable == Init /\ [][NextBidTable]_vars

\* Reputation bookkeeping alone: registration and updates.
NextReputation ==
    \/ \E r \in Resolvers, in \in RegisterInputs : RegisterResolver(r, in[1], in[2])
    \/ \E r \in Resolvers, success \in BOOLEAN : update_resolver_reputation(r, success)

SpecReputation == Init /\ [][NextReputation]_vars

\* The scenario of two bids on an order of 1,000,000: resolver rA (reputation
\* 0.9) and resolver rB (reputation 0.5) bid 1000 or 500, under a configured
\* reputation threshold of 0.5.
ScenarioOrderData == {OrderData("t1", 1000000, GoodAddress, Sha256Hex("abc123"), 3600, now)}
ScenarioRegisterInputs == {<<"rA", 90, 1000>>, <<"rB", 50, 1000>>}
ScenarioBidPrices == {1000, 500}

InitScenario == InitWith(50)

NextScenario ==
    \/ Tick
    \/ \E d \in ScenarioOrderData : PublishOrder(d)
    \/ discover_bridge_orders
    \/ \E in \in ScenarioRegisterInputs : RegisterResolver(in[1], in[2], in[3])
    \/ \E r \in Resolvers, p \in ScenarioBidPrices : submit_bid("t1", r, p, GAS_ESTIMATE)
    \/ select_winning_resolver("t1")

SpecScenario == InitScenario /\ [][NextScenario]_vars

\* The bridge coordinator: one published transfer (t1), events that also
\* name a transfer without a BridgeState (t2).
EscrowEvent(type, t, chain, block, hash) ==
    [event_type |-> type, transfer_id |-> t, chain_id |-> chain,
     block_number |-> block, transaction_hash |-> hash]

EventInputs ==
    {EscrowEvent("claimed", "t1", SourceChain, 1, "0xa"),
     EscrowEvent("claimed", "t1", DestChain, 1, "0xa"),
     EscrowEvent("expired", "t1", DestChain, 2, "0xb"),
     EscrowEvent("claimed", "t2", SourceChain, 1, "0xa")}

EventBatches == {<<e>> : e \in EventInputs} \cup {<<e, f>> : e, f \in EventInputs}

FewEventBatches == {<<EscrowEvent("claimed", "t1", SourceChain, 1, "0xa")>>,
                    <<EscrowEvent("expired", "t1", DestChain, 2, "0xa")>>}

BridgeIds == {"t1"}

\* Event monitoring, with syncs in between.
NextEvents ==
    \/ Tick
    \/ \E d \in ValidOrderData(BridgeIds) : PublishOrder(d)
    \/ \E t \in BridgeIds : sync_bridge_state(t, TRUE, TRUE)
    \/ \E batch \in EventBatches : monitor_escrow_events(batch)

SpecEvents == Init /\ [][NextEvents]_vars

\* Synchronisation, with the escrows moving, reads failing, reveals and events.
NextSync ==
    \/ Tick
    \/ \E d \in ValidOrderData(BridgeIds) : PublishOrder(d)
    \/ \E t \in BridgeIds, side \in {"source", "dest"}, o \in EscrowOutcomes :
            ChainStep(t, side, o)
    \/ \E t \in BridgeIds, a, b \in BOOLEAN : sync_bridge_state(t, a, b)
    \/ \E batch \in FewEventBatches : monitor_escrow_events(batch)
    \/ \E t \in BridgeIds, secret \in SecretInputs : handle_secret_reveal(t, secret)

SpecSync == Init /\ [][NextSync]_vars

\* Secrets: reveal at the coordinator and execution at the marketplace, for
\* one transfer and the bids of one registered resolver.
NextSecret ==
    \/ \E d \in ValidOrderData(BridgeIds) : PublishOrder(d)
    \/ discover_bridge_orders
    \/ \E in \in TimeoutRegisterInputs : RegisterResolver("rA", in[1], in[2])
    \/ \E t \in BridgeIds, p \in TimeoutBidPrices : submit_bid(t, "rA", p, GAS_ESTIMATE)
    \/ \E t \in BridgeIds : sync_bridge_state(t, TRUE, TRUE)
    \/ \E t \in BridgeIds, secret \in SecretInputs : handle_secret_reveal(t, secret)
    \/ \E t \in BridgeIds, r \in Resolvers, secret \in Secrets, d, c \in BOOLEAN :
            execute_bridge(t, r, secret, d, c)

SpecSecret == Init /\ [][NextSecret]_vars

\* Bidding: two orders, resolvers with a reputation or a stake that is too
\* low, or with neither (never registered).
BidRegisterInputs == {<<70, 1000>>, <<69, 1000>>, <<70, 999>>}
BidBidPrices == {5}

NextBid ==
    \/ \E d \in ValidOrderData(TransferIds) : PublishOrder(d)
    \/ discover_bridge_orders
    \/ \E r \in Resolvers, in \in BidRegisterInputs : RegisterResolver(r, in[1], in[2])
    \/ \E t \in TransferIds, r \in Resolvers, p \in BidBidPrices :
            submit_bid(t, r, p, GAS_ESTIMATE)

SpecBid == Init /\ [][NextBid]_vars

\* The daemon: its event-monitoring loop and its per-order monitoring tasks,
\* with the bids and executions of one resolver in between.
DaemonEventBatches == {<<>>, <<EscrowEvent("claimed", "t1", SourceChain, 1, "0xa")>>}

NextDaemon ==
    \/ start
    \/ activity_check("monitor")
    \/ activity_wake("monitor")
    \/ Tick
    \/ \E d \in ValidOrderData(BridgeIds) : PublishOrder(d)
    \/ daemon_discover
    \/ \E batch \in DaemonEventBatches : daemon_events(batch)
    \/ daemon_timeouts
    \/ \E t \in BridgeIds : monitor_single_order(t, TRUE, TRUE)
    \/ \E in \in TimeoutRegisterInputs : RegisterResolver("rA", in[1], in[2])
    \/ \E t \in BridgeIds, p \in TimeoutBidPrices : submit_bid(t, "rA", p, GAS_ESTIMATE)
    \/ \E t \in BridgeIds, c \in BOOLEAN : execute_bridge(t, "rA", "abc123", TRUE, c)

SpecDaemon == Init /\ [][NextDaemon]_vars

\* The five loops of the daemon, with iterations that raise and a shutdown
\* signal. A loop that sleeps wakes up, and a loop at its `while` tests it:
\* the event loop runs every task that is ready.
NextActivities ==
    \/ start
    \/ signal_handler
    \/ \E a \in Activities : activity_check(a)
    \/ \E a \in Activities : activity_wake(a)
    \/ \E a \in Activities : activity_fail(a)
    \/ \E d \in ValidOrderData(BridgeIds) : PublishOrder(d)
    \/ daemon_discover
    \/ daemon_events(<<>>)
    \/ daemon_timeouts
    \/ daemon_auto_bid
    \/ daemon_execute_winning_bids
    \/ daemon_maintain_reputation
    \/ daemon_cleanup

SpecActivities ==
    /\ Init
    /\ [][NextActivities]_vars
    /\ \A a \in Activities : WF_vars(activity_check(a)) /\ WF_vars(activity_wake(a))

\* Auto-bidding: the event-monitoring loop and the auto-bid loop of a daemon
\* whose resolver is registered, and bids submitted for its address from
\* outside the loop. The daemon is configured with a stake below or at the
\* minimum, and the two orders have a small and a large amount.
StakeInputs == {999, 1000}
AutoBidOrderData ==
    {OrderData("t1", 1000, GoodAddress, Sha256Hex("abc123"), 1, now),
     OrderData("t2", 100000, GoodAddress, Sha256Hex("abc123"), 1, now)}

InitAutoBid ==
    /\ InitServices(RESOLVER_REPUTATION_THRESHOLD)
    /\ \E stake \in StakeInputs :
          InitDaemon([DefaultDaemonConfig EXCEPT !.stake_amount = stake])

NextAutoBid ==
    \/ start
    \/ \E a \in {"monitor", "auto_bid"} : activity_check(a)
    \/ \E a \in {"monitor", "auto_bid"} : activity_wake(a)
    \/ Tick
    \/ \E d \in AutoBidOrderData : PublishOrder(d)
    \/ daemon_discover
    \/ daemon_events(<<>>)
    \/ daemon_timeouts
    \/ daemon_auto_bid
    \/ \E in \in TimeoutRegisterInputs : RegisterResolver("rA", in[1], in[2])
    \/ \E p \in TimeoutBidPrices : submit_bid("t1", "rA", p, GAS_ESTIMATE)

SpecAutoBid == InitAutoBid /\ [][NextAutoBid]_vars

\* Reaching a bid: the monitoring loop and the auto-bid loop of a started
\* daemon whose resolver registers with the marketplace, within the timeout of
\* the orders. The event loop runs every loop that can take a step.
BidLoopStep ==
    \/ daemon_discover
    \/ daemon_events(<<>>)
    \/ daemon_timeouts
    \/ daemon_auto_bid

NextBidReach ==
    \/ start
    \/ \E a \in {"monitor", "auto_bid"} : activity_check(a)
    \/ \E a \in {"monitor", "auto_bid"} : activity_wake(a)
    \/ BidLoopStep
    \/ \E d \in AutoBidOrderData : PublishOrder(d)
    \/ \E in \in TimeoutRegisterInputs : RegisterResolver("rA", in[1], in[2])

SpecBidReach ==
    /\ InitAutoBid
    /\ [][NextBidReach]_vars
    /\ WF_vars(start)
    /\ \A a \in {"monitor", "auto_bid"} : WF_vars(activity_check(a)) /\ WF_vars(activity_wake(a))
    /\ WF_vars(BidLoopStep)

\* Bid prices: _calculate_optimal_bid_price on amounts that 0.05% and 0.01%
\* divide and do not divide, and on the lists of at most MaxBids competing
\* bids with low, high and negative prices.
PriceAmounts == {1, 1999, 20000, 100000, 123456}
CompetingPrices == {-3, 5, 30, 2000}
ExistingBid(p) == [resolver_address |-> "rB", bid_price |-> p]
ExistingBidLists ==
    UNION {[1..n -> {ExistingBid(p) : p \in CompetingPrices}] : n \in 0..MaxBids}

NextPrice ==
    \E amount \in PriceAmounts, existing_bids \in ExistingBidLists :
        optimal_bid_price_call(amount, existing_bids)

SpecPrice == Init /\ [][NextPrice]_vars

\* A running daemon that tracks an order which is executed from outside
\* its loops: one bid, and executions until one makes its claims. The order
\* is published at time 0, so that its timeout lies within MaxTime. The
\* clock advances, and the event loop runs the
\* monitoring loop whenever it can take a step.
MonitorLoopStep ==
    \/ activity_check("monitor")
    \/ activity_wake("monitor")
    \/ daemon_discover
    \/ daemon_events(<<>>)
    \/ daemon_timeouts

NextTerminal ==
    \/ start
    \/ signal_handler
    \/ Tick
    \/ now = 0 /\ \E d \in ValidOrderData(BridgeIds) : PublishOrder(d)
    \/ MonitorLoopStep
    \/ \E t \in BridgeIds : monitor_single_order(t, TRUE, TRUE)
    \/ \E t \in BridgeIds : monitor_task_exit(t)
    \/ \E in \in TimeoutRegisterInputs : RegisterResolver("rA", in[1], in[2])
    \/ \E t \in BridgeIds, p \in TimeoutBidPrices :
          BidsOf(t) = <<>> /\ submit_bid(t, "rA", p, GAS_ESTIMATE)
    \/ \E t \in BridgeIds :
          claim_log = <<>> /\ execute_bridge(t, "rA", "abc123", TRUE, TRUE)

SpecTerminal ==
    /\ Init
    /\ [][NextTerminal]_vars
    /\ WF_vars(Tick)
    /\ WF_vars(MonitorLoopStep)

\* Shutdown: the daemon from its construction to the return of start(), with
\* signals delivered at any moment. main() calls start() right after the
\* construction, and the event loop runs every loop and every task that can
\* take a step.
LoopBodyStep ==
    \/ daemon_discover
    \/ daemon_events(<<>>)
    \/ daemon_timeouts
    \/ daemon_auto_bid
    \/ daemon_execute_winning_bids
    \/ daemon_maintain_reputation
    \/ daemon_cleanup

NextShutdown ==
    \/ start
    \/ signal_handler
    \/ \E a \in Activities : activity_check(a)
    \/ \E a \in Activities : activity_wake(a)
    \/ LoopBodyStep
    \/ \E d \in ValidOrderData(BridgeIds) : PublishOrder(d)
    \/ \E t \in BridgeIds : monitor_single_order(t, TRUE, TRUE)
    \/ \E t \in BridgeIds : monitor_task_exit(t)
    \/ shutdown_cancel
    \/ shutdown_complete

SpecShutdown ==
    /\ Init
    /\ [][NextShutdown]_vars
    /\ WF_vars(start)
    /\ \A a \in Activities : WF_vars(activity_check(a)) /\ WF_vars(activity_wake(a))
    /\ WF_vars(LoopBodyStep)
    /\ \A t \in BridgeIds : WF_vars(monitor_task_exit(t))
    /\ WF_vars(shutdown_cancel)
    /\ WF_vars(shutdown_complete)

\* Cleanup: the monitoring loop and the cleanup loop of a daemon that tracks
\* orders with a timeout of two hours, over seconds and over an idle hour.
LongOrderData ==
    {OrderData(t, 1000, GoodAddress, Sha256Hex("abc123"), 2 * INACTIVITY_LIMIT, now) :
        t \in TransferIds}

NextCleanup ==
    \/ start
    \/ \E a \in {"monitor", "cleanup"} : activity_check(a)
    \/ \E a \in {"monitor", "cleanup"} : activity_wake(a)
    \/ Tick
    \/ IdleHour
    \/ \E d \in LongOrderData : PublishOrder(d)
    \/ daemon_discover
    \/ daemon_events(<<>>)
    \/ daemon_timeouts
    \/ daemon_cleanup
    \/ \E t \in TransferIds : monitor_single_order(t, TRUE, TRUE)
    \/ \E t \in TransferIds : monitor_task_exit(t)

SpecCleanup == Init /\ [][NextCleanup]_vars

\* Operations: the same loops and tasks of a daemon configured with room for
\* one monitoring task, or with the default.
OperationCaps == {1, MAX_CONCURRENT_OPERATIONS}

InitOperations ==
    /\ InitServices(RESOLVER_REPUTATION_THRESHOLD)
    /\ \E cap \in OperationCaps :
          InitDaemon([DefaultDaemonConfig EXCEPT !.max_concurrent_operations = cap])

NextOperations ==
    \/ start
    \/ \E a \in {"monitor", "cleanup"} : activity_check(a)
    \/ \E a \in {"monitor", "cleanup"} : activity_wake(a)
    \/ Tick
    \/ IdleHour
    \/ \E d \in LongOrderData : now = 0 /\ PublishOrder(d)
    \/ daemon_discover
    \/ daemon_events(<<>>)
    \/ daemon_timeouts
    \/ daemon_cleanup
    \/ \E t \in TransferIds : monitor_single_order(t, TRUE, TRUE)
    \/ \E t \in TransferIds : monitor_task_exit(t)

SpecOperations == InitOperations /\ [][NextOperations]_vars

\* Discovery over a store with valid orders, orders without amount, orders
\* past their timeout and entries without the order's fields, while tracked
\* orders are bid on and executed.
DiscoverOrderData ==
    {OrderData(t, amt, GoodAddress, Sha256Hex("abc123"), 1, now) :
        t \in TransferIds, amt \in AmountInputs}

NextDiscover ==
    \/ Tick
    \/ \E d \in DiscoverOrderData : PublishOrder(d)
    \/ \E t \in TransferIds : PublishMalformed(t)
    \/ discover_bridge_orders
    \/ \E in \in TimeoutRegisterInputs : RegisterResolver("rA", in[1], in[2])
    \/ \E t \in TransferIds, p \in TimeoutBidPrices :
          BidsOf(t) = <<>> /\ submit_bid(t, "rA", p, GAS_ESTIMATE)
    \/ \E t \in TransferIds :
          claim_log = <<>> /\ execute_bridge(t, "rA", "abc123", TRUE, TRUE)

SpecDiscover == Init /\ [][NextDiscover]_vars

\* Interleavings: a sync of one transfer suspended at its reads, while the
\* chains move and other syncs, events and a secret reveal of the same
\* transfer are handled.
InterleaveBatches ==
    {<<EscrowEvent("claimed", "t1", SourceChain, 1, "0xa")>>,
     <<EscrowEvent("refunded", "t1", DestChain, 1, "0xb")>>}

NextInterleave ==
    \/ Tick
    \/ \E d \in ValidOrderData(BridgeIds) : now = 0 /\ PublishOrder(d)
    \/ \E t \in BridgeIds, side \in {"source", "dest"}, outcome \in EscrowOutcomes :
          ChainStep(t, side, outcome)
    \/ \E t \in BridgeIds : sync_bridge_state(t, TRUE, TRUE)
    \/ \E t \in BridgeIds : sync_begin(t, TRUE, TRUE)
    \/ \E t \in BridgeIds : sync_finish(t)
    \/ \E batch \in InterleaveBatches : monitor_escrow_events(batch)
    \/ \E t \in BridgeIds : handle_secret_reveal(t, "abc123")

SpecInterleave == Init /\ [][NextInterleave]_vars

\* Lookups: syncs of transfers that were published and of transfers that
\* were not, with events in between.
NextLookup ==
    \/ Tick
    \/ \E d \in ValidOrderData(TransferIds) : PublishOrder(d)
    \/ \E t \in TransferIds, a, b \in BOOLEAN : sync_bridge_state(t, a, b)
    \/ \E batch \in FewEventBatches : monitor_escrow_events(batch)

SpecLookup == Init /\ [][NextLookup]_vars

\* Event handling: every type of event on either side of t1, each with a
\* key of its own, alone or behind an event of a transfer without a
\* BridgeState.
HandleEventInputs ==
    {EscrowEvent("claimed", "t1", SourceChain, 1, "0xa"),
     EscrowEvent("claimed", "t1", DestChain, 2, "0xa"),
     EscrowEvent("refunded", "t1", SourceChain, 1, "0xb"),
     EscrowEvent("refunded", "t1", DestChain, 2, "0xb"),
     EscrowEvent("expired", "t1", SourceChain, 1, "0xc"),
     EscrowEvent("expired", "t1", DestChain, 2, "0xc")}

UnknownTransferEvents == {EscrowEvent("claimed", "t2", SourceChain, 1, "0xa")}

HandleBatches ==
    {<<e>> : e \in HandleEventInputs \cup UnknownTransferEvents}
        \cup {<<u, e>> : u \in UnknownTransferEvents, e \in HandleEventInputs}

NextHandle ==
    \/ Tick
    \/ \E d \in ValidOrderData(BridgeIds) : PublishOrder(d)
    \/ \E t \in BridgeIds : sync_bridge_state(t, TRUE, TRUE)
    \/ \E batch \in HandleBatches : monitor_escrow_events(batch)

SpecHandle == Init /\ [][NextHandle]_vars

\* ------------------------------------------------------------- claims

WellFormedHash(h) == h.len = SECRET_HASH_LEN /\ h.hex
WellFormedAddress(a) == a.len = TOKEN_ADDRESS_LEN

\* C1: validate_order returns true if and only if amount > 0, now <=
\* created_at + timeout, secret_hash is a 64-character hex digest and
\* token_address is a 42-character address.
C1_ValidateIffWellFormed ==
    [][\A i \in DOMAIN store_orders :
          ValidateOrder(i) =>
              (ret'.ok <=> /\ store_orders[i].amount > 0
                           /\ now <= store_orders[i].created_at + store_orders[i].timeout
                           /\ WellFormedHash(store_orders[i].secret_hash)
                           /\ WellFormedAddress(store_orders[i].token_address))]_vars

\* The places, in the bid list of t, of the bids with the highest score.
TopBids(t) ==
    {i \in DOMAIN BidsOf(t) :
        \A j \in DOMAIN BidsOf(t) :
            TotalScore(BidsOf(t)[i], order_heap[t]) >= TotalScore(BidsOf(t)[j], order_heap[t])}

\* C4: when two or more bids of an order share the highest score,
\* select_winning_resolver returns one of them, the one submitted earliest.
C4_TieEarliestSubmitted ==
    [][\A t \in TransferIds :
          (select_winning_resolver(t) /\ Cardinality(TopBids(t)) >= 2) =>
              /\ ret_bid' # <<>>
              /\ \E i \in TopBids(t) : ret_bid'[1] = BidsOf(t)[i]
              /\ \A i \in TopBids(t) : ret_bid'[1].submitted_at <= BidsOf(t)[i].submitted_at]_vars

\* C5: select_winning_resolver returns None exactly when the order has no
\* bids, and otherwise a bid whose score is the maximum over the order's bids.
C5_NoneIffNoBids ==
    [][\A t \in TransferIds :
          select_winning_resolver(t) =>
              /\ (ret_bid' = <<>>) <=> (BidsOf(t) = <<>>)
              /\ BidsOf(t) # <<>> =>
                    /\ ret_bid' # <<>>
                    /\ \E i \in TopBids(t) : ret_bid'[1] = BidsOf(t)[i]]_vars

\* The bids of the scenario: A by rA at 1000 with reputation 0.9, B by rB at
\* 500 with reputation 0.5.
IsBidA(b) == b.resolver_address = "rA" /\ b.bid_price = 1000 /\ b.reputation_score = 90
IsBidB(b) == b.resolver_address = "rB" /\ b.bid_price = 500 /\ b.reputation_score = 50
ScenarioBids ==
    /\ "t1" \in Range(active_orders)
    /\ Len(BidsOf("t1")) = 2
    /\ \E i, j \in 1..2 : IsBidA(BidsOf("t1")[i]) /\ IsBidB(BidsOf("t1")[j])

\* C10: on an order of 1,000,000 with bids A (1000, reputation 0.9) and B
\* (500, reputation 0.5) the price scores are 0.9 and 0.95 and
\* select_winning_resolver returns A.
C10_ScenarioWinnerIsA ==
    ScenarioBids =>
        /\ \A i \in 1..2 :
              LET b == BidsOf("t1")[i]
              IN /\ IsBidA(b) => 10 * PriceScore(b, order_heap["t1"]) = 9 * order_heap["t1"].amount
                 /\ IsBidB(b) => 100 * PriceScore(b, order_heap["t1"]) = 95 * order_heap["t1"].amount
        /\ SelectResult("t1") # <<>> /\ IsBidA(SelectResult("t1")[1])
        /\ ret.op = "select_winning_resolver" => ret_bid # <<>> /\ IsBidA(ret_bid[1])

C10_Witness ==
    /\ ScenarioBids
    /\ ret.op = "select_winning_resolver"
    /\ ret_bid # <<>> /\ IsBidA(ret_bid[1])
    /\ store_state["t1"].winning_resolver = "rA"

\* C6: a success sets the reputation to min(reputation + 0.01, 1.0), a
\* failure sets it to max(reputation - 0.05, 0.0), and every reputation
\* stays in [0, 1].
C6_ReputationClamped ==
    /\ [](\A r \in DOMAIN resolver_reputation :
              resolver_reputation[r] >= 0 /\ resolver_reputation[r] <= 100)
    /\ [][\A r \in Resolvers, success \in BOOLEAN :
            update_resolver_reputation(r, success) =>
                LET current == IF r \in DOMAIN resolver_reputation
                               THEN resolver_reputation[r] ELSE 50
                IN resolver_reputation'[r] =
                       IF success THEN (IF current + 1 > 100 THEN 100 ELSE current + 1)
                       ELSE (IF current - 5 < 0 THEN 0 ELSE current - 5)]_vars

C6_Witness ==
    /\ "rA" \in DOMAIN resolver_reputation /\ resolver_reputation["rA"] = 100
    /\ "rB" \in DOMAIN resolver_reputation /\ resolver_reputation["rB"] = 0
    /\ ret.op = "update_resolver_reputation" /\ ret.transfer_id = "rB" /\ ~ret.ok

\* The tracked orders past their timeout.
PastTimeout == {t \in Range(active_orders) :
                   now > order_heap[t].created_at + order_heap[t].timeout}

\* C9: monitor_order_timeouts returns exactly the tracked orders past their
\* timeout, marks them expired, drops them and their bids, leaves the other
\* tracked orders and their bids as they were; afterwards no tracked order is
\* past its timeout, and select_winning_resolver has no winner for an expired
\* order.
C9_MonitorExpiresExactly ==
    /\ [](\A t \in DOMAIN order_heap :
              order_heap[t].status = "expired" => SelectResult(t) = <<>>)
    /\ [][monitor_order_timeouts =>
            /\ Range(ret_ids') = PastTimeout
            /\ Len(ret_ids') = Cardinality(PastTimeout)
            /\ \A t \in PastTimeout :
                  /\ order_heap'[t].status = "expired"
                  /\ t \notin Range(active_orders')
                  /\ t \notin DOMAIN pending_bids'
            /\ \A t \in Range(active_orders) \ PastTimeout :
                  /\ t \in Range(active_orders')
                  /\ order_heap'[t] = order_heap[t]
                  /\ (t \in DOMAIN pending_bids) = (t \in DOMAIN pending_bids')
                  /\ t \in DOMAIN pending_bids => pending_bids'[t] = pending_bids[t]
            /\ \A t \in Range(active_orders') :
                  now' <= order_heap'[t].created_at + order_heap'[t].timeout]_vars

\* monitor_order_timeouts has just expired t1, which never had a bid, and
\* kept t2 with its bid.
C9_Witness ==
    /\ ret.op = "monitor_order_timeouts"
    /\ ret_ids = <<"t1">>
    /\ order_heap["t1"].status = "expired"
    /\ \A i \in DOMAIN store_bids : store_bids[i].transfer_id # "t1"
    /\ active_orders = <<"t2">>
    /\ "t2" \in DOMAIN pending_bids
    /\ SelectResult("t1") = <<>>

\* A BridgeState and a store record without their last-sync timestamp.
NoTimestamp(state) == [state EXCEPT !.last_sync = 0]

\* C2: a second sync_bridge_state on unchanged escrows leaves the BridgeState
\* and the persisted record as the first one did, but for the timestamp.
C2_SyncIdempotent ==
    \A t \in TransferIds, a, b \in BOOLEAN :
        StoredState(t) # <<>> =>
            LET source_state == get_escrow_state(t, "source", a)
                dest_state == get_escrow_state(t, "dest", b)
                once == SyncBridgeStates(bridge_states, t, source_state, dest_state, now)
                twice == SyncBridgeStates(once, t, source_state, dest_state, now + 1)
                stored_once == SyncStore(store_state, t, source_state, dest_state, now)
                stored_twice == SyncStore(stored_once, t, source_state, dest_state, now + 1)
            IN /\ DOMAIN twice = DOMAIN once
               /\ \A u \in DOMAIN once : NoTimestamp(twice[u]) = NoTimestamp(once[u])
               /\ \A u \in TransferIds :
                     NoTimestamp(stored_twice[u]) = NoTimestamp(stored_once[u])

\* A sync has succeeded after the secret was revealed, with the source escrow
\* claimed on its chain.
C2_Witness ==
    /\ ret.op = "sync_bridge_state" /\ ret.ok
    /\ trigger_log # <<>>
    /\ "t1" \in DOMAIN bridge_states
    /\ bridge_states["t1"].source_escrow_state = "claimed"
    /\ bridge_states["t1"].last_sync = now /\ now > 0
    /\ store_state["t1"].last_sync = now

\* Whether the event log of its transfer already holds the key of the event.
Logged(event) ==
    /\ event.transfer_id \in DOMAIN escrow_events
    /\ \E i \in DOMAIN escrow_events[event.transfer_id] :
          /\ escrow_events[event.transfer_id][i].transaction_hash = event.transaction_hash
          /\ escrow_events[event.transfer_id][i].block_number = event.block_number

\* C3: an event whose (transaction_hash, block_number) is in the event log is
\* discarded when it is observed again: the escrow states and the event log
\* stay as they were, and no log holds a key twice.
C3_DuplicateDiscarded ==
    /\ [](\A t \in DOMAIN escrow_events :
              \A i, j \in DOMAIN escrow_events[t] :
                  (/\ escrow_events[t][i].transaction_hash = escrow_events[t][j].transaction_hash
                   /\ escrow_events[t][i].block_number = escrow_events[t][j].block_number)
                      => i = j)
    /\ [][\A batch \in EventBatches :
            (monitor_escrow_events(batch) /\ \A i \in DOMAIN batch : Logged(batch[i])) =>
                /\ UNCHANGED <<bridge_states, escrow_events, store_state>>
                /\ ret'.new_events = 0]_vars

\* monitor_escrow_events has just discarded every event it read, for a
\* transfer whose source escrow an earlier event marked claimed.
C3_Witness ==
    /\ ret.op = "monitor_escrow_events" /\ ret.new_events = 0
    /\ "t1" \in DOMAIN escrow_events /\ Len(escrow_events["t1"]) = 1
    /\ "t1" \in DOMAIN bridge_states
    /\ bridge_states["t1"].source_escrow_state = "claimed"

\* C7: claim execution is triggered at most once per transfer, whatever
\* syncs and events come between two reveals of the same valid secret.
C7_TriggeredAtMostOnce ==
    \A t \in TransferIds :
        Cardinality({i \in DOMAIN trigger_log : trigger_log[i] = t}) <= 1

\* C8: a reveal or an execution with a secret whose digest is not the
\* committed hash fails, changes neither the BridgeState (secret_revealed
\* stays false) nor the order, and triggers or makes no claim.
C8_WrongSecretRefused ==
    /\ [][\A t \in TransferIds, secret \in Secrets :
            (/\ ret'.op = "handle_secret_reveal"
             /\ ret'.transfer_id = t /\ ret'.secret = secret
             /\ handle_secret_reveal(t, secret)
             /\ t \in DOMAIN bridge_states
             /\ bridge_states[t].secret_hash # [len |-> 64, hex |-> TRUE, of |-> secret]) =>
                /\ ~ret'.ok
                /\ UNCHANGED <<bridge_states, order_heap, store_state, trigger_log, claim_log>>]_vars
    /\ [][\A t \in TransferIds, secret \in Secrets :
            (/\ ret'.op = "execute_bridge"
             /\ ret'.transfer_id = t /\ ret'.secret = secret
             /\ \E r \in Resolvers, d, c \in BOOLEAN : execute_bridge(t, r, secret, d, c)
             /\ t \in Range(active_orders)
             /\ order_heap[t].secret_hash # [len |-> 64, hex |-> TRUE, of |-> secret]) =>
                /\ ~ret'.ok
                /\ UNCHANGED <<bridge_states, order_heap, store_state, trigger_log, claim_log>>]_vars

\* The winning resolver has just been refused an execution with the wrong
\* secret: nothing is revealed, claimed or completed.
C8_Witness ==
    /\ ret.op = "execute_bridge" /\ ret.secret = "wrong" /\ ~ret.ok
    /\ "t1" \in Range(active_orders) /\ order_heap["t1"].status = "pending"
    /\ SelectResult("t1") # <<>> /\ SelectResult("t1")[1].resolver_address = "rA"
    /\ "t1" \in DOMAIN bridge_states /\ ~bridge_states["t1"].secret_revealed
    /\ claim_log = <<>> /\ trigger_log = <<>>

\* C11: submit_bid returns false and changes no bid list when the order is
\* not tracked, the resolver's reputation is below the threshold, or the
\* resolver's stake is below the minimum.
C11_BidRefused ==
    [][\A t \in TransferIds, r \in Resolvers, p \in BidBidPrices :
        (/\ submit_bid(t, r, p, GAS_ESTIMATE)
         /\ \/ t \notin Range(active_orders)
            \/ r \notin DOMAIN resolver_reputation
            \/ resolver_reputation[r] < resolver_reputation_threshold
            \/ r \notin DOMAIN resolver_stakes
            \/ resolver_stakes[r] < 1000) =>
            /\ ~ret'.ok
            /\ UNCHANGED <<pending_bids, store_bids>>]_vars

\* A bid on a tracked order that already has a bid has just been refused to
\* a resolver of sufficient reputation whose stake is one short.
C11_Witness ==
    /\ ret.op = "submit_bid" /\ ~ret.ok /\ ret.transfer_id = "t1"
    /\ "t1" \in Range(active_orders)
    /\ "rB" \in DOMAIN resolver_stakes /\ resolver_stakes["rB"] = 999
    /\ "rB" \in DOMAIN resolver_reputation /\ resolver_reputation["rB"] = 70
    /\ "rA" \in DOMAIN resolver_stakes /\ resolver_stakes["rA"] = 1000
    /\ "rA" \in DOMAIN resolver_reputation /\ resolver_reputation["rA"] = 70
    /\ Len(BidsOf("t1")) = 1

\* C12: for a tracked order whose status is executing, completed or expired,
\* submit_bid returns false and records no bid.
C12_BidOnlyPendingOrBidding ==
    [][\A t \in TransferIds :
        (/\ ret'.op = "submit_bid" /\ ret'.transfer_id = t
         /\ \E r \in Resolvers, p \in BidPrices : submit_bid(t, r, p, GAS_ESTIMATE)
         /\ t \in Range(active_orders)
         /\ order_heap[t].status \in {"executing", "completed", "expired"}) =>
            /\ ~ret'.ok
            /\ UNCHANGED <<pending_bids, store_bids>>]_vars

\* C13: the bid list of an order holds at most one bid per resolver address.
C13_OneBidPerResolver ==
    \A t \in DOMAIN pending_bids :
        \A i, j \in DOMAIN pending_bids[t] :
            pending_bids[t][i].resolver_address = pending_bids[t][j].resolver_address
                => i = j

OrderStatuses == <<"pending", "bidding", "executing", "completed", "expired">>

\* The place of a status in the order of the lifecycle.
StatusRank(status) == CHOOSE i \in DOMAIN OrderStatuses : OrderStatuses[i] = status

\* C14: the status of a BridgeOrder stays within the five statuses of the
\* lifecycle and never moves to an earlier one.
C14_StatusForwardOnly ==
    [][\A t \in DOMAIN order_heap :
        order_heap[t].status \in Range(OrderStatuses) =>
            /\ t \in DOMAIN order_heap'
            /\ order_heap'[t].status \in Range(OrderStatuses)
            /\ StatusRank(order_heap'[t].status) >= StatusRank(order_heap[t].status)]_vars

\* C15: once secret_revealed of a BridgeState is true, no sync, reveal or
\* event makes it false again.
C15_SecretRevealedMonotonic ==
    [][\A t \in DOMAIN bridge_states :
        bridge_states[t].secret_revealed =>
            /\ t \in DOMAIN bridge_states'
            /\ bridge_states'[t].secret_revealed]_vars

TerminalEscrowStates == {"claimed", "refunded", "expired"}

\* C16: once both escrow states of a BridgeState are terminal, no sync,
\* event or reveal changes either escrow state, secret_revealed or
\* secret_hash.
C16_TerminalImmutable ==
    [][\A t \in DOMAIN bridge_states :
        (/\ bridge_states[t].source_escrow_state \in TerminalEscrowStates
         /\ bridge_states[t].dest_escrow_state \in TerminalEscrowStates) =>
            /\ t \in DOMAIN bridge_states'
            /\ bridge_states'[t].source_escrow_state = bridge_states[t].source_escrow_state
            /\ bridge_states'[t].dest_escrow_state = bridge_states[t].dest_escrow_state
            /\ bridge_states'[t].secret_revealed = bridge_states[t].secret_revealed
            /\ bridge_states'[t].secret_hash = bridge_states[t].secret_hash]_vars

\* C17: a sync_bridge_state during which the escrow-state read of either
\* chain fails returns a failure and writes nothing to the BridgeState or
\* to the store.
C17_FailedReadWritesNothing ==
    [][\A t \in TransferIds, source_ok, dest_ok \in BOOLEAN :
        (sync_bridge_state(t, source_ok, dest_ok) /\ ~(source_ok /\ dest_ok)) =>
            /\ ~ret'.ok
            /\ UNCHANGED <<bridge_states, store_state>>]_vars

\* The claim calls the step has added to claim_log.
NewClaims == SubSeq(claim_log', Len(claim_log) + 1, Len(claim_log'))

\* C18: an execute_bridge makes the destination claim before the source
\* claim, and after a failed destination claim it fails without a source
\* claim.
C18_DestinationClaimFirst ==
    [][(/\ ret'.op = "execute_bridge"
        /\ \E t \in TransferIds, r \in Resolvers, secret \in SecretInputs, d, c \in BOOLEAN :
              execute_bridge(t, r, secret, d, c)) =>
        /\ Len(claim_log') >= Len(claim_log)
        /\ SubSeq(claim_log', 1, Len(claim_log)) = claim_log
        /\ \A i \in DOMAIN NewClaims : NewClaims[i].transfer_id = ret'.transfer_id
        /\ NewClaims # <<>> =>
              /\ NewClaims[1].chain = "dest"
              /\ ~NewClaims[1].ok => (Len(NewClaims) = 1 /\ ~ret'.ok)
              /\ NewClaims[1].ok => (Len(NewClaims) = 2 /\ NewClaims[2].chain = "source")]_vars

\* An execution has just failed at its destination claim, after an earlier
\* execution of the same transfer made both claims.
C18_Witness ==
    /\ ret.op = "execute_bridge" /\ ~ret.ok /\ ret.transfer_id = "t1"
    /\ claim_log = <<[transfer_id |-> "t1", chain |-> "dest", ok |-> TRUE],
                     [transfer_id |-> "t1", chain |-> "source", ok |-> TRUE],
                     [transfer_id |-> "t1", chain |-> "dest", ok |-> FALSE]>>

\* C19: an execution whose destination claim succeeds and whose source
\* claim fails leaves a flag in the recorded state of the transfer: the
\* status of the order or of its store record is no longer what it was (a
\* failed destination claim and no execution at all leave both as they were).
C19_PartialCompletionFlagged ==
    [][\A t \in TransferIds :
        (/\ ret'.op = "execute_bridge" /\ ret'.transfer_id = t
         /\ \E r \in Resolvers, secret \in Secrets : execute_bridge(t, r, secret, TRUE, FALSE)
         /\ Len(NewClaims) = 2 /\ NewClaims[1].ok /\ ~NewClaims[2].ok) =>
            \/ order_heap'[t].status # order_heap[t].status
            \/ store_state'[t].status # store_state[t].status]_vars

\* C20: sync_bridge_state for a transfer with no stored order metadata
\* returns not-found and neither creates nor modifies a BridgeState, locally
\* or in the store.
C20_SyncNotFound ==
    [][\A t \in TransferIds :
        (/\ ret'.op = "sync_bridge_state" /\ ret'.transfer_id = t
         /\ \E source_ok, dest_ok \in BOOLEAN : sync_bridge_state(t, source_ok, dest_ok)
         /\ \A i \in DOMAIN store_orders : store_orders[i].transfer_id # t) =>
            /\ ~ret'.ok
            /\ UNCHANGED <<bridge_states, store_state, store_orders, escrow_events>>]_vars

\* A sync of t2, which was never published, has just returned not-found
\* while t1 has a BridgeState and a store record.
C20_Witness ==
    /\ ret.op = "sync_bridge_state" /\ ret.transfer_id = "t2" /\ ~ret.ok
    /\ DOMAIN bridge_states = {"t1"}
    /\ store_state["t1"].last_sync >= 0
    /\ store_state["t2"] = BlankStoreState

\* The step has applied the event to the BridgeState of its transfer: a
\* claimed or refunded event to the side of its chain, the other side being
\* left alone, an expired event to both sides.
EventApplied(event) ==
    LET before == bridge_states[event.transfer_id]
        after == bridge_states'[event.transfer_id]
        expected == IF event.event_type = "expired" THEN "expired" ELSE event.event_type
    IN /\ event.event_type \in {"claimed", "refunded", "expired"}
       /\ IF event.event_type = "expired"
          THEN after.source_escrow_state = "expired" /\ after.dest_escrow_state = "expired"
          ELSE IF event.chain_id = before.source_chain
               THEN /\ after.source_escrow_state = expected
                    /\ after.dest_escrow_state = before.dest_escrow_state
               ELSE /\ after.dest_escrow_state = expected
                    /\ after.source_escrow_state = before.source_escrow_state

\* C21: one new event for a known transfer sets the side of its chain to
\* claimed or refunded and leaves the other side, or sets both sides to
\* expired.
C21_EventSetsItsSide ==
    [][\A event \in HandleEventInputs :
        (/\ ret'.op = "monitor_escrow_events"
         /\ monitor_escrow_events(<<event>>)
         /\ event.transfer_id \in DOMAIN bridge_states
         /\ ~Logged(event)) =>
            /\ ret'.new_events = 1
            /\ DOMAIN bridge_states' = DOMAIN bridge_states
            /\ EventApplied(event)]_vars

\* The source escrow was refunded and then the destination escrow claimed,
\* each by an event of its own.
C21_Witness ==
    /\ ret.op = "monitor_escrow_events" /\ ret.new_events = 1
    /\ "t1" \in DOMAIN bridge_states
    /\ bridge_states["t1"].source_escrow_state = "refunded"
    /\ bridge_states["t1"].dest_escrow_state = "claimed"
    /\ Len(escrow_events["t1"]) = 2
    /\ escrow_events["t1"][2].event_type = "claimed"

\* C22: an event of a transfer without a BridgeState creates and changes no
\* BridgeState, monitor_escrow_events returns normally, and the event that
\* follows it in the batch is handled.
C22_UnknownTransferDropped ==
    [][\A unknown \in UnknownTransferEvents :
        unknown.transfer_id \notin DOMAIN bridge_states =>
            /\ (ret'.op = "monitor_escrow_events" /\ monitor_escrow_events(<<unknown>>)) =>
                  /\ bridge_states' = bridge_states
                  /\ ret'.ok
            /\ \A event \in HandleEventInputs :
                  (/\ ret'.op = "monitor_escrow_events"
                   /\ monitor_escrow_events(<<unknown, event>>)
                   /\ event.transfer_id \in DOMAIN bridge_states
                   /\ ~Logged(event)) =>
                      /\ ret'.ok
                      /\ ret'.new_events >= 1
                      /\ DOMAIN bridge_states' = DOMAIN bridge_states
                      /\ EventApplied(event)
                      /\ \E i \in DOMAIN escrow_events'[event.transfer_id] :
                            escrow_events'[event.transfer_id][i] = event]_vars

\* A batch of an event of t2, which has no BridgeState, and a refund of the
\* destination escrow of t1 has just been read: the refund was applied.
C22_Witness ==
    /\ ret.op = "monitor_escrow_events" /\ ret.new_events = 2
    /\ DOMAIN bridge_states = {"t1"}
    /\ bridge_states["t1"].dest_escrow_state = "refunded"
    /\ bridge_states["t1"].source_escrow_state = "pending"
    /\ "t2" \in DOMAIN escrow_events


\* C23: an iteration that raises leaves its loop in the sleep of its except
\* clause and every other loop where it was; a loop ends only once the
\* daemon is no longer running; and while the daemon is running a loop that
\* failed iterates again.
C23_ActivitiesSurviveFailure ==
    /\ [][\A a \in Activities :
            /\ (activity_pc[a] = "iterating" /\ activity_pc'[a] = "failed")
                   => \A b \in Activities \ {a} : activity_pc'[b] = activity_pc[b]
            /\ (activity_pc[a] # "stopped" /\ activity_pc'[a] = "stopped") => ~running]_vars
    /\ \A a \in Activities :
           (activity_pc[a] = "failed") ~> (activity_pc[a] = "iterating" \/ ~running)

C23_Witness ==
    /\ running
    /\ activity_pc["monitor"] = "failed"
    /\ activity_pc["auto_bid"] = "iterating"
    /\ active_orders # <<>>

\* The bids of the daemon's resolver address the marketplace holds for t.
OwnBids(bids, t) ==
    SelectSeq(Get(bids, t, <<>>),
              LAMBDA bid : bid.resolver_address = daemon_config.resolver_address)

ProfitBelowOnePercent(order) ==
    LET fee == order.amount
        gas == 10 * (ChainGasCost(order.source_chain) + ChainGasCost(order.dest_chain))
    IN 100 * (fee - gas) < 1000 * order.amount

\* The orders the auto-bid loop asks _should_bid_on_order about.
Asked == {t \in monitored_orders : order_heap[t].status = "pending"}

\* C25: _should_bid_on_order is false when the resolver has a bid on the
\* order, the profitability is below 1%, the stake is below 1000 or the
\* reputation is below 0.7, and true otherwise: the orders an iteration of
\* the auto-bid loop decides to bid on are the ones none of these holds for.
C25_ShouldBidDecision ==
    [][(ret'.op = "auto_bid_on_orders" /\ daemon_auto_bid)
          => \A t \in Asked :
                (t \in Range(ret_ids'))
                    <=> ~ \/ OwnBids(pending_bids, t) # <<>>
                          \/ ProfitBelowOnePercent(order_heap[t])
                          \/ daemon_config.stake_amount < 1000
                          \/ resolver_stats.reputation_score < 70]_vars

C25_Witness ==
    /\ ret.op = "auto_bid_on_orders"
    /\ ret_ids = <<>>
    /\ daemon_config.stake_amount = 1000
    /\ \E t \in Asked : OwnBids(pending_bids, t) = <<>> /\ order_heap[t].amount = 100000
    /\ \E t \in Asked : OwnBids(pending_bids, t) # <<>>

\* C26: the price is floor(0.05% of amount) when there is no competing bid,
\* and otherwise the larger of floor(0.95 * lowest competing price) and
\* floor(0.01% of amount), so never below the latter.
C26_OptimalBidPrice ==
    ret.op = "calculate_optimal_bid_price"
        => IF ret_bid = <<>>
           THEN ret.price = (5 * ret.amount) \div 10000
           ELSE /\ \E i \in DOMAIN ret_bid :
                      /\ \A j \in DOMAIN ret_bid : ret_bid[i].bid_price <= ret_bid[j].bid_price
                      /\ ret.price = Max((95 * ret_bid[i].bid_price) \div 100,
                                         ret.amount \div 10000)
                /\ ret.price >= ret.amount \div 10000

C26_Witness ==
    /\ ret.op = "calculate_optimal_bid_price"
    /\ Len(ret_bid) = 2
    /\ ret_bid[1].bid_price = 2000
    /\ ret_bid[2].bid_price = 5
    /\ ret.amount = 100000
    /\ ret.price = 10

\* The daemon tracks t.
Tracked(t) == t \in monitored_orders \/ t \in active_operations

C28_ShutdownTerminates ==
    /\ signal_received ~> (daemon_pc = "terminated")
    /\ [](daemon_pc = "terminated"
            => \A t \in active_operations : task_state[t] = "done")

\* C29: a step that removes the monitor of t (its monitored_orders entry or
\* its task in active_operations) does so because the order of t has
\* completed or expired or because the task of t has finished; the monitors
\* of the other transfers stay.
C29_MonitorsIndependent ==
    [][\A t \in TransferIds :
          (\/ t \in monitored_orders /\ t \notin monitored_orders'
           \/ t \in active_operations /\ t \notin active_operations')
              => \/ order_heap'[t].status \in {"completed", "expired"}
                 \/ task_state[t] = "done"]_vars

\* The store has an order of transfer t that validate_order accepts now.
ValidInStore(t) ==
    \E i \in DOMAIN store_orders :
        /\ store_orders[i].transfer_id = t
        /\ ~Malformed(store_orders[i])
        /\ validate_order(BridgeOrder(store_orders[i]), now)

\* C30: the transfers discover_bridge_orders returns were not tracked before
\* the call and have a store order that passes validate_order, each is
\* returned once, the transfers tracked before the call stay tracked and
\* every transfer the call adds has a store order that passes
\* validate_order, and the order of a transfer tracked before the call is
\* left as it was.
C30_DiscoverOnlyNewValid ==
    [][(ret'.op = "discover_bridge_orders" /\ discover_bridge_orders)
          => /\ \A t \in Range(ret_ids') :
                   t \notin Range(active_orders) /\ ValidInStore(t)
             /\ \A i, j \in DOMAIN ret_ids' : ret_ids'[i] = ret_ids'[j] => i = j
             /\ SubSeq(active_orders', 1, Len(active_orders)) = active_orders
             /\ \A t \in Range(active_orders') \ Range(active_orders) : ValidInStore(t)
             /\ \A t \in Range(active_orders) : order_heap'[t] = order_heap[t]]_vars

C30_Witness ==
    /\ ret.op = "discover_bridge_orders"
    /\ ret_ids = <<"t2">>
    /\ active_orders = <<"t1", "t2">>
    /\ order_heap["t1"].status = "completed"
    /\ order_heap["t2"].status = "pending"

\* The resolver whose bid select_winning_resolver returns for t, if any.
IsWinner(t, r) == SelectResult(t) # <<>> /\ SelectResult(t)[1].resolver_address = r

\* C31: execute_bridge called by a resolver that is not the selected winner
\* returns failure, makes no claim on either chain and leaves the status of
\* the order as it was.
C31_UnauthorizedExecuteRefused ==
    [][\A t \in TransferIds, r \in Resolvers :
          (/\ ret'.op = "execute_bridge"
           /\ ret'.transfer_id = t
           /\ ~IsWinner(t, r)
           /\ \E secret \in SecretInputs, d, c \in BOOLEAN : execute_bridge(t, r, secret, d, c))
              => /\ ~ret'.ok
                 /\ claim_log' = claim_log
                 /\ order_heap' = order_heap]_vars

C31_Witness ==
    /\ ret.op = "execute_bridge"
    /\ ret.transfer_id = "t1"
    /\ ret.secret = "abc123"
    /\ ~ret.ok
    /\ "t1" \in Range(active_orders)
    /\ IsWinner("t1", "rA")
    /\ claim_log = <<>>
    /\ order_heap["t1"].status = "pending"

\* The reputation of r, 0.5 for a resolver without a record.
ReputationOf(reputations, r) == Get(reputations, r, DEFAULT_REPUTATION)

\* C32: after an execute_bridge attempt of the winning resolver with the
\* valid secret, its reputation is 0.01 higher (at most 1.0) when the attempt
\* succeeded and 0.05 lower (at least 0.0) when it failed, a failed
\* destination or source claim included.
C32_ReputationAfterEveryAttempt ==
    [][\A t \in TransferIds, r \in Resolvers :
          (/\ ret'.op = "execute_bridge"
           /\ ret'.transfer_id = t
           /\ IsWinner(t, r)
           /\ \E secret \in Secrets, d, c \in BOOLEAN :
                 /\ SecretMatches(secret, order_heap[t].secret_hash)
                 /\ execute_bridge(t, r, secret, d, c))
              => ReputationOf(resolver_reputation', r) =
                    IF ret'.ok
                    THEN Min(ReputationOf(resolver_reputation, r) + SUCCESS_DELTA, MAX_REPUTATION)
                    ELSE Max(ReputationOf(resolver_reputation, r) - FAILURE_DELTA,
                             MIN_REPUTATION)]_vars

\* The fields of a BridgeState that syncs, events and reveals update.
UpdatedFields == {"source_escrow_state", "dest_escrow_state", "secret_revealed"}

\* C33: when a sync of t that was suspended after its reads stores its
\* BridgeState, every field that an event, a reveal or another sync changed
\* in the meantime keeps the value it was given.
C33_NoLostUpdate ==
    [][\A t \in TransferIds :
          (ret'.op = "sync_bridge_state" /\ ret'.transfer_id = t /\ sync_finish(t)
             /\ sync_reads[t][1].seen # <<>> /\ t \in DOMAIN bridge_states)
              => \A f \in UpdatedFields :
                    bridge_states[t][f] # sync_reads[t][1].seen[1][f]
                        => bridge_states'[t][f] = bridge_states[t][f]]_vars

\* The daemon of a registered resolver is running with auto-bidding enabled,
\* enough stake and reputation, and monitors the tracked pending order t,
\* which has no bid.
BidDue(t) ==
    /\ daemon_pc = "running"
    /\ daemon_config.auto_bid_enabled
    /\ daemon_config.stake_amount >= DAEMON_MIN_STAKE
    /\ resolver_stats.reputation_score >= DAEMON_MIN_REPUTATION
    /\ t \in monitored_orders
    /\ t \in Range(active_orders)
    /\ order_heap[t].status = "pending"
    /\ BidsOf(t) = <<>>
    /\ BidAccepted(t, Get(resolver_reputation, daemon_config.resolver_address, 0),
                   Get(resolver_stakes, daemon_config.resolver_address, 0))

\* C34: a discovered valid pending order without bids, monitored by a daemon
\* with auto-bidding enabled, stake >= 1000 and reputation >= 0.7, eventually
\* holds an accepted bid of the daemon's address.
C34_BidReachable ==
    \A t \in TransferIds : BidDue(t) ~> (OwnBids(pending_bids, t) # <<>>)

\* C35: an execute_bridge call of the winning resolver with the valid secret
\* on an order that is already completed makes no destination claim and no
\* source claim; each was executed once, by the call that completed it.
C35_CompletedNotClaimedAgain ==
    [][\A t \in TransferIds, r \in Resolvers :
          (/\ ret'.op = "execute_bridge"
           /\ ret'.transfer_id = t
           /\ t \in DOMAIN order_heap
           /\ order_heap[t].status = "completed"
           /\ IsWinner(t, r)
           /\ \E secret \in Secrets, d, c \in BOOLEAN :
                 /\ SecretMatches(secret, order_heap[t].secret_hash)
                 /\ execute_bridge(t, r, secret, d, c))
              => claim_log' = claim_log]_vars

\* C36: an order whose status is completed is not marked expired by any
\* later step, and a monitor_order_timeouts call does not report it among the
\* expired orders.
C36_CompletedNeverExpired ==
    [][\A t \in DOMAIN order_heap :
          order_heap[t].status = "completed"
              => /\ order_heap'[t].status # "expired"
                 /\ (ret'.op = "monitor_order_timeouts" /\ MonitorTimeoutsCall)
                        => t \notin Range(ret_ids')]_vars

\* The order of t was expired by monitor_order_timeouts and is still in the
\* Coordination Store.
ExpiredInStore(t) ==
    /\ t \in DOMAIN order_heap
    /\ order_heap[t].status = "expired"
    /\ \E i \in DOMAIN store_orders : store_orders[i].transfer_id = t

\* C37: an order that monitor_order_timeouts has expired is not added back to
\* active_orders by a later step, a discover_bridge_orders call that still
\* finds the order in the store included.
C37_ExpiredNotRediscovered ==
    [][\A t \in TransferIds :
          (ExpiredInStore(t) /\ t \notin Range(active_orders))
              => /\ t \notin Range(active_orders')
                 /\ (ret'.op = "discover_bridge_orders" /\ discover_bridge_orders)
                        => t \notin Range(ret_ids')]_vars

C37_Witness ==
    /\ ret.op = "discover_bridge_orders"
    /\ ret_ids = <<>>
    /\ ExpiredInStore("t1")
    /\ "t1" \notin Range(active_orders)

\* C38: every transfer a discovery of the monitoring loop adds to
\* active_orders is in the list the call returns, an entry of the store that
\* raises later in the batch notwithstanding, and after the discovery every
\* transfer the marketplace tracks is in monitored_orders.
C38_TrackedAreReturned ==
    [][(ret'.op = "discover_bridge_orders" /\ daemon_discover)
          => /\ Range(active_orders') \ Range(active_orders) \subseteq Range(ret_ids')
             /\ Range(active_orders') \subseteq monitored_orders']_vars

\* C39: every transfer with an entry in pending_bids is tracked in
\* active_orders.
C39_BidsOnTrackedOrders == DOMAIN pending_bids \subseteq Range(active_orders)

C39_Witness ==
    /\ ret.op = "monitor_order_timeouts"
    /\ "t1" \in Range(ret_ids)
    /\ \E i \in DOMAIN store_bids : store_bids[i].transfer_id = "t1"
    /\ "t1" \notin DOMAIN pending_bids

\* C40: active_operations holds at most max_concurrent_operations monitoring
\* tasks, and every transfer in it is in monitored_orders.
C40_OperationsBounded ==
    /\ Cardinality(active_operations) <= daemon_config.max_concurrent_operations
    /\ active_operations \subseteq monitored_orders

C40_Witness ==
    /\ daemon_config.max_concurrent_operations = 1
    /\ monitored_orders = {"t1", "t2"}
    /\ Cardinality(active_operations) = 1

=============================================================================
